---- MODULE Spec2Model ----
(***************************************************************************)
(* Model of the Mindscale bot's helpers: the leaderboard                     *)
(* (src/Plugins/helpers/leaderboard.py: the ranked user store, the page     *)
(* renderer, the pager and the leaderboard command / page-action handlers), *)
(* the moderation commands (src/plugins/helpers/moderators.py) and the      *)
(* stats categories (src/plugins/helpers/stats.py).                         *)
(*                                                                          *)
(* Strings that the code builds, splits or parses (callback tokens, display *)
(* names) are sequences of one-character strings, so that formatting and    *)
(* parsing are computed and not assumed.  A rendered text is the sequence   *)
(* of the blocks the code appends to it.                                    *)
(***************************************************************************)
EXTENDS Integers, Sequences, FiniteSets, TLC

VARIABLES users, daily, msg, last, mods, chat, chat_data

vars == <<users, daily, msg, last, mods, chat, chat_data>>

(***************************************************************************)
(* Bounds of the model and constants of the program.                        *)
(***************************************************************************)
MaxRows == 3
MaxUsers == 11
MaxDaily == 6
MaxViewer == 1
MaxDailyRows == 2

PER_PAGE == 5
DefaultLimit == 100

\* SQL NULL in an integer column of the users table.
NULL == -1

Min(a, b) == IF a < b THEN a ELSE b
Max(a, b) == IF a > b THEN a ELSE b

(***************************************************************************)
(* Text helpers.                                                            *)
(***************************************************************************)
Digit(d) == CASE d = 0 -> "0" [] d = 1 -> "1" [] d = 2 -> "2" [] d = 3 -> "3"
              [] d = 4 -> "4" [] d = 5 -> "5" [] d = 6 -> "6" [] d = 7 -> "7"
              [] d = 8 -> "8" [] d = 9 -> "9"

RECURSIVE NatStr(_)
NatStr(n) == IF n < 10 THEN <<Digit(n)>> ELSE NatStr(n \div 10) \o <<Digit(n % 10)>>

\* str(n) of a Python int, as used by an f-string "{n}".
IntStr(n) == IF n < 0 THEN <<"-">> \o NatStr(0 - n) ELSE NatStr(n)

DigitVal(c) == CASE c = "0" -> 0 [] c = "1" -> 1 [] c = "2" -> 2 [] c = "3" -> 3
                 [] c = "4" -> 4 [] c = "5" -> 5 [] c = "6" -> 6 [] c = "7" -> 7
                 [] c = "8" -> 8 [] c = "9" -> 9 [] OTHER -> -1

IsDigit(c) == DigitVal(c) >= 0

\* str.startswith
StartsWith(s, p) == Len(s) >= Len(p) /\ SubSeq(s, 1, Len(p)) = p

\* str.strip(): drops leading and trailing blanks.
RECURSIVE LStrip(_)
LStrip(s) == IF s /= <<>> /\ Head(s) = " " THEN LStrip(Tail(s)) ELSE s

RECURSIVE RStrip(_)
RStrip(s) == IF s /= <<>> /\ s[Len(s)] = " " THEN RStrip(SubSeq(s, 1, Len(s) - 1)) ELSE s

Strip(s) == RStrip(LStrip(s))

\* Position of the first sep in s at or after index from, 0 when there is none.
FirstAt(s, sep, from) ==
    LET hits == {i \in from..Len(s) : s[i] = sep}
    IN IF hits = {} THEN 0 ELSE CHOOSE i \in hits : \A j \in hits : i <= j

\* str.split(sep, maxsplit) for a one-character separator.
RECURSIVE Split(_, _, _)
Split(s, sep, maxsplit) ==
    LET p == FirstAt(s, sep, 1)
    IN IF maxsplit = 0 \/ p = 0
       THEN <<s>>
       ELSE <<SubSeq(s, 1, p - 1)>> \o Split(SubSeq(s, p + 1, Len(s)), sep, maxsplit - 1)

\* Value of a run of digits with single underscores between digits;
\* -1 when s is not such a run.
RECURSIVE DigitsVal(_, _, _)
DigitsVal(s, acc, prevDigit) ==
    IF s = <<>> THEN (IF prevDigit THEN acc ELSE -1)
    ELSE IF IsDigit(Head(s)) THEN DigitsVal(Tail(s), acc * 10 + DigitVal(Head(s)), TRUE)
    ELSE IF Head(s) = "_" /\ prevDigit THEN DigitsVal(Tail(s), acc, FALSE)
    ELSE -1

\* int(s): [ok |-> TRUE, val |-> n], or ok = FALSE for a ValueError.
ParseInt(s) ==
    LET t == Strip(s)
        neg == t /= <<>> /\ Head(t) = "-"
        signed == t /= <<>> /\ Head(t) \in {"-", "+"}
        body == IF signed THEN Tail(t) ELSE t
        v == DigitsVal(body, 0, FALSE)
    IN IF v < 0 THEN [ok |-> FALSE, val |-> 0]
       ELSE [ok |-> TRUE, val |-> IF neg THEN 0 - v ELSE v]

\* html.escape(s) with quote=True.
EscapeChar(c) == CASE c = "&" -> <<"&", "a", "m", "p", ";">>
                   [] c = "<" -> <<"&", "l", "t", ";">>
                   [] c = ">" -> <<"&", "g", "t", ";">>
                   [] c = "\"" -> <<"&", "q", "u", "o", "t", ";">>
                   [] c = "'" -> <<"&", "#", "x", "2", "7", ";">>
                   [] OTHER -> <<c>>

RECURSIVE HtmlEscape(_)
HtmlEscape(s) == IF s = <<>> THEN <<>> ELSE EscapeChar(Head(s)) \o HtmlEscape(Tail(s))

\* Python's "a or b" on strings.
StrOr(a, b) == IF a /= <<>> THEN a ELSE b

Unknown == <<"U", "n", "k", "n", "o", "w", "n">>

(***************************************************************************)
(* The users table: a sequence of rows in rowid order.                      *)
(***************************************************************************)
FirstNameOf(id) == CASE id % 4 = 1 -> <<"A", "<", "n">>
                     [] id % 4 = 2 -> <<>>
                     [] id % 4 = 3 -> <<>>
                     [] OTHER -> <<"D", "&">>

UserNameOf(id) == CASE id % 4 = 1 -> <<"a", "n">>
                    [] id % 4 = 2 -> <<"b">>
                    [] id % 4 = 3 -> <<>>
                    [] OTHER -> <<>>

\* A row of the users table with the given counters.
MkRow(id, w, s) ==
    [user_id |-> id, username |-> UserNameOf(id), first_name |-> FirstNameOf(id),
     games_played |-> IF w = NULL THEN NULL ELSE IF w = 0 THEN 0 ELSE w + 1,
     wins |-> w,
     losses |-> IF w = NULL THEN NULL ELSE IF w = 0 THEN 0 ELSE 1,
     rounds_played |-> IF w = NULL THEN NULL ELSE 3 * w,
     eliminations |-> 0,
     total_score |-> s,
     penalties |-> IF s = NULL THEN NULL ELSE s]

WinsVals == {NULL, 0, 1}
ScoreVals == {NULL, 0, 1}

\* Tables of n rows, row i belonging to user i.
TablesOfLen(n) ==
    {[i \in 1..n |-> MkRow(i, f[i][1], f[i][2])] : f \in [1..n -> WinsVals \X ScoreVals]}

SmallTables == UNION {TablesOfLen(n) : n \in 0..MaxRows}

\* A table of n rows with a fixed spread of counters; its last row has the
\* fewest wins and the lowest score, and has played.
BulkTable(n) == [i \in 1..n |-> MkRow(i, 1 + ((n - i) % 3), (n - i) % 2)]

\* Three users with wins 5, 10, 10 and scores 0, 50, 100, in rowid order.
ExampleTable == <<MkRow(1, 5, 0), MkRow(2, 10, 50), MkRow(3, 10, 100)>>

IFNULL(v, d) == IF v = NULL THEN d ELSE v

\* The SELECT list of get_all_users_sorted.
SelectRow(r) ==
    [user_id |-> r.user_id, username |-> r.username, first_name |-> r.first_name,
     games_played |-> IFNULL(r.games_played, 0),
     wins |-> IFNULL(r.wins, 0),
     losses |-> IFNULL(r.losses, 0),
     rounds_played |-> IFNULL(r.rounds_played, 0),
     eliminations |-> IFNULL(r.eliminations, 0),
     total_score |-> IFNULL(r.total_score, 0),
     penalties |-> IFNULL(r.penalties, 0)]

\* A plausible slip: order by total_score alone, as userinfo_callback does.
OrderBeforeScoreOnly(a, b) == a.total_score > b.total_score

\* ORDER BY wins DESC, total_score DESC on the selected (aliased) columns:
\* TRUE when a must come before b.
OrderBefore(a, b) ==
    \/ a.wins > b.wins
    \/ (a.wins = b.wins /\ a.total_score > b.total_score)

\* The place of row i in the sorted result: behind the earlier rows that it
\* does not precede and behind the later rows that precede it.
SortPos(rows, i) ==
    1 + Cardinality({j \in 1..(i - 1) : ~OrderBefore(rows[i], rows[j])})
      + Cardinality({j \in (i + 1)..Len(rows) : OrderBefore(rows[j], rows[i])})

\* The rows in ORDER BY order.
OrderBy(rows) ==
    LET pos == [i \in 1..Len(rows) |-> SortPos(rows, i)]
    IN [p \in 1..Len(rows) |-> rows[CHOOSE i \in 1..Len(rows) : pos[i] = p]]

\* A plausible slip: the LIMIT clause is left out of the query.
LimitOff(rows, limit) == rows

\* LIMIT ?  (a negative limit means no limit in SQLite)
Limit(rows, limit) ==
    IF limit < 0 THEN rows ELSE SubSeq(rows, 1, Min(limit, Len(rows)))

\* get_all_users_sorted(limit); fault: the persistence layer raised.
get_all_users_sorted(table, limit, fault) ==
    IF fault THEN <<>>
    ELSE Limit(OrderBy([i \in 1..Len(table) |-> SelectRow(table[i])]), limit)

\* round(num / den * 100, 1) in tenths of a percent (ties to even).
RoundPct(num, den) ==
    LET q == (2000 * num) \div (2 * den)
        r == (2000 * num) % (2 * den)
    IN IF r > den THEN q + 1
       ELSE IF r < den THEN q
       ELSE IF q % 2 = 0 THEN q ELSE q + 1

\* A plausible slip: the guard tests wins instead of games_played.
WinPercentGuardsWins(wins, gp) == IF wins > 0 THEN RoundPct(wins, Max(gp, 1)) ELSE 0

WinPercent(wins, gp) == IF gp > 0 THEN RoundPct(wins, gp) ELSE 0

\* Index of the first row of rows with the given user_id, 0 when there is none.
IndexOf(rows, user_id) ==
    LET hits == {i \in 1..Len(rows) : rows[i].user_id = user_id}
    IN IF hits = {} THEN 0 ELSE CHOOSE i \in hits : \A j \in hits : i <= j

\* A plausible slip: a user who is not listed is ranked last instead of after
\* the last.
RankSummaryOffByOne(all_users, user_id) ==
    LET idx == IndexOf(all_users, user_id)
    IN IF idx > 0
       THEN LET row == all_users[idx]
            IN [username |-> StrOr(row.username, StrOr(row.first_name, Unknown)),
                rank |-> idx, total_users |-> Len(all_users),
                total_played |-> row.games_played, wins |-> row.wins,
                losses |-> row.losses,
                win_percent |-> WinPercent(row.wins, row.games_played),
                rounds_played |-> row.rounds_played, eliminations |-> row.eliminations,
                total_score |-> row.total_score, penalties |-> row.penalties]
       ELSE [username |-> Unknown, rank |-> Len(all_users),
             total_users |-> Len(all_users),
             total_played |-> 0, wins |-> 0, losses |-> 0, win_percent |-> 0,
             rounds_played |-> 0, eliminations |-> 0, total_score |-> 0, penalties |-> 0]

\* The scan of get_user_rank over the fetched ordering.
RankSummary(all_users, user_id) ==
    LET idx == IndexOf(all_users, user_id)
    IN IF idx > 0
       THEN LET row == all_users[idx]
            IN [username |-> StrOr(row.username, StrOr(row.first_name, Unknown)),
                rank |-> idx, total_users |-> Len(all_users),
                total_played |-> row.games_played, wins |-> row.wins,
                losses |-> row.losses,
                win_percent |-> WinPercent(row.wins, row.games_played),
                rounds_played |-> row.rounds_played, eliminations |-> row.eliminations,
                total_score |-> row.total_score, penalties |-> row.penalties]
       ELSE [username |-> Unknown, rank |-> Len(all_users) + 1,
             total_users |-> Len(all_users),
             total_played |-> 0, wins |-> 0, losses |-> 0, win_percent |-> 0,
             rounds_played |-> 0, eliminations |-> 0, total_score |-> 0, penalties |-> 0]

\* The summary returned by the except branch of get_user_rank.
DefaultSummary ==
    [username |-> Unknown, rank |-> 1, total_users |-> 0, total_played |-> 0,
     wins |-> 0, losses |-> 0, win_percent |-> 0, rounds_played |-> 0,
     eliminations |-> 0, total_score |-> 0, penalties |-> 0]

\* get_user_rank(user_id); fault: the persistence layer raised inside
\* get_all_users_sorted; raised: the scan itself raised and get_user_rank's
\* own except branch ran.
get_user_rank(table, user_id, fault, raised) ==
    IF raised THEN DefaultSummary
    ELSE RankSummary(get_all_users_sorted(table, DefaultLimit, fault), user_id)

(***************************************************************************)
(* The page renderer and the pager.                                         *)
(***************************************************************************)
\* _medal_for_rank
_medal_for_rank(rank) == CASE rank = 1 -> "gold" [] rank = 2 -> "silver"
                           [] rank = 3 -> "bronze" [] OTHER -> ""

LeaderboardPrefix == <<"l", "e", "a", "d", "e", "r", "b", "o", "a", "r", "d">>
DailyPrefix == <<"d", "a", "i", "l", "y", "_">> \o LeaderboardPrefix

\* f"{prefix}_{page}"
PageToken(prefix, page) == prefix \o <<"_">> \o IntStr(page)

\* A plausible slip: the indicator button carries a page token.
NopTokenPageOne(prefix) == PageToken(prefix, 1)

\* f"{prefix}:nop"
NopToken(prefix) == prefix \o <<":", "n", "o", "p">>

\* A plausible slip: a missing or unreadable page part is read as page 1.
LeaderboardTokenPageOrOne(data) ==
    LET parts == Split(data, "_", 1)
    IN IF Len(parts) < 2 \/ ~ParseInt(parts[2]).ok THEN [ok |-> TRUE, val |-> 1]
       ELSE ParseInt(parts[2])

\* int(data.split("_", 1)[1]) of leaderboard_callback.
LeaderboardTokenPage(data) ==
    LET parts == Split(data, "_", 1)
    IN IF Len(parts) < 2 THEN [ok |-> FALSE, val |-> 0] ELSE ParseInt(parts[2])

\* int(data.split("_", 2)[2]) of daily_leaderboard_callback.
DailyTokenPage(data) ==
    LET parts == Split(data, "_", 2)
    IN IF Len(parts) < 3 THEN [ok |-> FALSE, val |-> 0] ELSE ParseInt(parts[3])

\* The reply markup of a message without buttons (the code's None).
NoPager == <<>>

\* A plausible slip: the 'next' control is offered on the last page too.
NavRowNoUpperGuard(page, total_pages, prefix) ==
    (IF page > 1
     THEN <<[label |-> "Previous", data |-> PageToken(prefix, page - 1)]>> ELSE <<>>)
    \o <<[label |-> "Next", data |-> PageToken(prefix, page + 1)]>>

\* The navigation row of _build_pager_old.
NavRow(page, total_pages, prefix) ==
    (IF page > 1
     THEN <<[label |-> "Previous", data |-> PageToken(prefix, page - 1)]>> ELSE <<>>)
    \o (IF page < total_pages
        THEN <<[label |-> "Next", data |-> PageToken(prefix, page + 1)]>> ELSE <<>>)

\* _build_pager_old(page, total_pages, prefix): the rows of buttons.
_build_pager_old(page, total_pages, prefix) ==
    IF total_pages <= 1 THEN NoPager
    ELSE LET nav_row == NavRow(page, total_pages, prefix)
             page_row == <<[label |-> "Page", data |-> NopToken(prefix),
                            page |-> page, total_pages |-> total_pages]>>
         IN (IF nav_row /= <<>> THEN <<nav_row>> ELSE <<>>) \o <<page_row>>

\* math.ceil(a / b) for a >= 0 and b /= 0.
CeilDiv(a, b) == IF b > 0 THEN (a + b - 1) \div b ELSE 0 - (a \div (0 - b))

\* A plausible slip: floor instead of ceil.
TotalPagesFloor(total, per_page) == Max(1, total \div per_page)

\* total_pages = max(1, math.ceil(total / per_page))
TotalPages(total, per_page) == Max(1, CeilDiv(total, per_page))

\* A plausible slip: the requested page is used unclamped.
ClampPageNone(page, total_pages) == page

\* page = max(1, min(page, total_pages))
ClampPage(page, total_pages) == Max(1, Min(page, total_pages))

\* Python's s[a:b].
PySlice(s, a, b) ==
    LET n == Len(s)
        lo == IF a < 0 THEN Max(0, n + a) ELSE Min(a, n)
        hi == IF b < 0 THEN Max(0, n + b) ELSE Min(b, n)
    IN SubSeq(s, lo + 1, hi)

\* A plausible slip: entries numbered within the page.
EntryRankRelative(start_idx, k) == k

\* enumerate(..., start=start_idx + 1): the rank of the k-th row of the slice.
EntryRank(start_idx, k) == start_idx + k

\* The block appended for one row of the slice.
EntryBlock(row, rank, viewer_id) ==
    [kind |-> "entry", rank |-> rank, medal |-> _medal_for_rank(rank),
     highlight |-> (row.user_id = viewer_id),
     display_name |-> HtmlEscape(StrOr(row.first_name, StrOr(row.username, Unknown))),
     user_id |-> row.user_id, games |-> row.games_played,
     win_percent |-> WinPercent(row.wins, row.games_played),
     wins |-> row.wins, losses |-> row.losses,
     score |-> row.total_score, pen |-> row.penalties]

\* A plausible slip: an unlisted viewer is ranked total instead of total + 1.
MeSummaryOffByOne(all_users, viewer_id) ==
    LET idx == IndexOf(all_users, viewer_id)
    IN IF idx > 0
       THEN LET me_row == all_users[idx]
            IN [username |-> StrOr(me_row.username, StrOr(me_row.first_name, Unknown)),
                rank |-> idx, games_played |-> me_row.games_played,
                wins |-> me_row.wins, losses |-> me_row.losses,
                total_score |-> me_row.total_score, penalties |-> me_row.penalties]
       ELSE [username |-> Unknown, rank |-> Len(all_users), games_played |-> 0,
             wins |-> 0, losses |-> 0, total_score |-> 0, penalties |-> 0]

\* The dict "me" of the 'Your Rank' block.
MeSummary(all_users, viewer_id) ==
    LET idx == IndexOf(all_users, viewer_id)
    IN IF idx > 0
       THEN LET me_row == all_users[idx]
            IN [username |-> StrOr(me_row.username, StrOr(me_row.first_name, Unknown)),
                rank |-> idx, games_played |-> me_row.games_played,
                wins |-> me_row.wins, losses |-> me_row.losses,
                total_score |-> me_row.total_score, penalties |-> me_row.penalties]
       ELSE [username |-> Unknown, rank |-> Len(all_users) + 1, games_played |-> 0,
             wins |-> 0, losses |-> 0, total_score |-> 0, penalties |-> 0]

\* The 'Your Rank' block.
MeBlock(me, viewer_id) ==
    [kind |-> "your_rank", rank |-> me.rank, display_name |-> HtmlEscape(me.username),
     user_id |-> viewer_id, games |-> me.games_played,
     win_percent |-> IF me.games_played /= 0
                     THEN RoundPct(me.wins, me.games_played) ELSE 0,
     wins |-> me.wins, losses |-> me.losses,
     score |-> me.total_score, pen |-> me.penalties]

\* A plausible slip: the block is appended whether or not the viewer is listed.
UserInPageNever(slice, viewer_id) == FALSE

\* user_in_page after the loop over the slice.
UserInPage(slice, viewer_id) == \E k \in 1..Len(slice) : slice[k].user_id = viewer_id

\* _build_leaderboard_text(all_users, page, per_page, viewer_id):
\* raised is TRUE for the ZeroDivisionError of per_page = 0.
_build_leaderboard_text(all_users, page0, per_page, viewer_id) ==
    IF per_page = 0 THEN [raised |-> TRUE]
    ELSE
    LET total == Len(all_users)
        total_pages == TotalPages(total, per_page)
        page == ClampPage(page0, total_pages)
        start_idx == (page - 1) * per_page
        end_idx == Min(start_idx + per_page, total)
        slice == PySlice(all_users, start_idx, end_idx)
        header == <<[kind |-> "header"]>>
        entries == [k \in 1..Len(slice) |->
                       EntryBlock(slice[k], EntryRank(start_idx, k), viewer_id)]
        tail == IF ~UserInPage(slice, viewer_id)
                THEN <<MeBlock(MeSummary(all_users, viewer_id), viewer_id)>>
                ELSE <<>>
    IN [raised |-> FALSE, text |-> header \o entries \o tail,
        total_pages |-> total_pages, page |-> page]

\* The blocks of a rendered text of the given kind.
Blocks(text, kind) == SelectSeq(text, LAMBDA b : b.kind = kind)

(***************************************************************************)
(* SpecStore: the ranked user store queried on bounded tables.              *)
(***************************************************************************)
NoMsg == [kind |-> "none"]
Idle == [op |-> "init"]

\* An optional value: None, or Some(v).
None == <<>>
Some(v) == <<v>>

\* The state of the moderation and stats helpers before any of their commands:
\* an empty mods table, no message of theirs in the chat, and an empty
\* chat_data.
NoModeration ==
    /\ mods = <<>>
    /\ chat = <<>>
    /\ chat_data = None

StoreTables ==
    SmallTables \cup {ExampleTable, BulkTable(DefaultLimit), BulkTable(DefaultLimit + 1)}

StoreInit ==
    /\ users \in StoreTables
    /\ daily = <<>>
    /\ msg = NoMsg
    /\ last = Idle
    /\ NoModeration

FetchLimits == {0, 1, 2, DefaultLimit}

\* A call of get_all_users_sorted(limit).
FetchOrdered ==
    \E limit \in FetchLimits, fault \in BOOLEAN :
        /\ last = Idle
        /\ last' = [op |-> "fetch", limit |-> limit, fault |-> fault,
                    out |-> get_all_users_sorted(users, limit, fault)]
        /\ UNCHANGED <<users, daily, msg, mods, chat, chat_data>>

\* The user ids a rank may be asked for: the first and last rows' users, and
\* one user without a row.
RankTargets == {1, 2, Len(users), Len(users) + 1}

\* A call of get_user_rank(user_id).
FetchRank ==
    \E user_id \in RankTargets, fault \in BOOLEAN, raised \in BOOLEAN :
        /\ last = Idle
        /\ last' = [op |-> "rank", user_id |-> user_id, fault |-> fault,
                    raised |-> raised,
                    out |-> get_user_rank(users, user_id, fault, raised)]
        /\ UNCHANGED <<users, daily, msg, mods, chat, chat_data>>

StoreNext == FetchOrdered \/ FetchRank

SpecStore == StoreInit /\ [][StoreNext]_vars

(***************************************************************************)
(* SpecRender: the renderer and the pager applied to fetched orderings.     *)
(***************************************************************************)
RenderInit ==
    /\ users \in SmallTables
    /\ daily = <<>>
    /\ msg = NoMsg
    /\ last = Idle
    /\ NoModeration

PerPages == {-1, 0, 1, 2, 3}
Pages == -1..(MaxRows + 2)
Viewers == 1..(MaxRows + 1)

\* A call of _build_leaderboard_text on the fetched ordering.
RenderPage ==
    /\ last = Idle
    /\ \E all_users \in {get_all_users_sorted(users, DefaultLimit, FALSE)} :
       \E page \in Pages, per_page \in PerPages, viewer_id \in Viewers :
           last' = [op |-> "render", all_users |-> all_users, page |-> page,
                    per_page |-> per_page, viewer_id |-> viewer_id,
                    out |-> _build_leaderboard_text(all_users, page, per_page, viewer_id)]
    /\ UNCHANGED <<users, daily, msg, mods, chat, chat_data>>

\* A call of _build_pager_old.
BuildPager ==
    \E page \in Pages, total_pages \in 0..(MaxRows + 1),
       prefix \in {LeaderboardPrefix, DailyPrefix} :
        /\ last = Idle
        /\ last' = [op |-> "pager", page |-> page, total_pages |-> total_pages,
                    prefix |-> prefix,
                    out |-> _build_pager_old(page, total_pages, prefix)]
        /\ UNCHANGED <<users, daily, msg, mods, chat, chat_data>>

RenderNext == RenderPage \/ BuildPager

SpecRender == RenderInit /\ [][RenderNext]_vars

\* The buttons of a markup, row after row.
RECURSIVE Buttons(_)
Buttons(markup) == IF markup = <<>> THEN <<>> ELSE Head(markup) \o Buttons(Tail(markup))

(***************************************************************************)
(* Spec: the leaderboard commands and page actions on one chat message.     *)
(*                                                                          *)
(* msg is the leaderboard message the user looks at: the text and reply     *)
(* markup last delivered, whether it is a photo with a caption, and the     *)
(* (page, total_pages) pair and ordering length of the render it shows.     *)
(* last describes what the last handler did.                                *)
(***************************************************************************)
ViewerIds == 1..MaxViewer

Init ==
    /\ users = <<>>
    /\ daily = <<>>
    /\ msg = NoMsg
    /\ last = Idle
    /\ NoModeration

\* A player takes part in a first game and gets a row in the users table.
UserJoins ==
    /\ Len(users) < MaxUsers
    /\ users' = Append(users, MkRow(Len(users) + 1, (Len(users) + 1) % 3,
                                    (Len(users) + 1) % 2))
    /\ last' = [op |-> "env"]
    /\ UNCHANGED <<daily, msg, mods, chat, chat_data>>

\* A player enters the daily window.
DailyPlays ==
    /\ Len(daily) < MaxDaily
    /\ daily' = Append(daily, SelectRow(MkRow(Len(daily) + 1, 1, 1)))
    /\ last' = [op |-> "env"]
    /\ UNCHANGED <<users, msg, mods, chat, chat_data>>

\* The lowest-ranked player drops out of the daily window.
DailyExpires ==
    /\ daily /= <<>>
    /\ daily' = SubSeq(daily, 1, Len(daily) - 1)
    /\ last' = [op |-> "env"]
    /\ UNCHANGED <<users, msg, mods, chat, chat_data>>

\* reset_daily_leaderboard, scheduled every day at 00:00.
DailyReset ==
    /\ daily /= <<>>
    /\ daily' = <<>>
    /\ last' = [op |-> "env"]
    /\ UNCHANGED <<users, msg, mods, chat, chat_data>>

\* get_daily_leaderboard()
get_daily_leaderboard == daily

\* What a message displays, as far as an edit can change it.
Content(m) == [text |-> m.text, markup |-> m.markup, warned |-> m.warned]

\* The answers of the delivery collaborator to an edit of message m to content
\* c: an edit to the displayed content is rejected as "not modified".
EditOutcomes(m, c) ==
    IF Content(m) = c THEN {"not_modified", "error"} ELSE {"ok", "error"}

\* The message m after a successful edit to the render r with markup pager.
Edited(m, r, pager, total, warned) ==
    [kind |-> m.kind, photo |-> m.photo, warned |-> warned, text |-> r.text,
     markup |-> pager, page |-> r.page, total_pages |-> r.total_pages,
     total |-> total]

\* The faults of the delivery and card collaborators during an initial
\* request: how the loading notice went out ("sticker", as a "text" after the
\* sticker failed, or "raise" when both failed), and whether the photo
\* download, the deletion of the loading notice, the card generation, the
\* photo message and the text message succeed.
SendFaults ==
    [loading : {"sticker", "text", "raise"}, download : BOOLEAN, delete : BOOLEAN,
     card : BOOLEAN, photo : BOOLEAN, text : BOOLEAN]

NoFault ==
    [loading |-> "sticker", download |-> TRUE, delete |-> TRUE, card |-> TRUE,
     photo |-> TRUE, text |-> TRUE]

\* One case for each way an initial request can end: a photo, a text after the
\* card failed, and nothing after the text failed as well.
SendCases ==
    {NoFault, [NoFault EXCEPT !.card = FALSE],
     [NoFault EXCEPT !.card = FALSE, !.text = FALSE]}

\* The final responses an initial request delivers under the faults f: the
\* photo with the caption, or the text when generate_card or reply_photo
\* raised; none when the loading notice or the text raised.
FinalResponses(f) ==
    IF f.loading = "raise" THEN <<>>
    ELSE IF f.card /\ f.photo THEN <<"photo">>
    ELSE IF f.text THEN <<"text">> ELSE <<>>

\* The request raises out of the handler: the loading notice failed twice,
\* or the text message after the failed photo failed.
SendRaised(f) == f.loading = "raise" \/ (~(f.card /\ f.photo) /\ ~f.text)

\* A plausible slip: the text message is sent without the reply markup.
DeliveredWithoutMarkup(kind, text, markup, sent) ==
    [kind |-> kind, photo |-> (sent = "photo"), warned |-> FALSE, text |-> text,
     markup |-> IF sent = "photo" THEN markup ELSE <<>>]

\* The message delivered by reply_photo(caption=text, reply_markup=markup) or
\* by reply_text(text=text, reply_markup=markup).
Delivered(kind, text, markup, sent) ==
    [kind |-> kind, photo |-> (sent = "photo"), warned |-> FALSE, text |-> text,
     markup |-> markup]

\* The leaderboard message that shows the render r with the markup pager.
InitialMessage(kind, r, pager, total, sent) ==
    LET m == Delivered(kind, r.text, pager, sent)
    IN [kind |-> m.kind, photo |-> m.photo, warned |-> m.warned,
        text |-> m.text, markup |-> m.markup, page |-> r.page,
        total_pages |-> r.total_pages, total |-> total]

\* _send_leaderboard_initial / _send_daily_leaderboard_initial: the ordering
\* is rendered at page 1 and sent as a photo caption, or as a text when the
\* card or the photo fails.  The text and the pager are each built once
\* and bound to a name, as the local variables of the code are.
SendInitial(kind, prefix, all_users, viewer_id, fault, f) ==
    \E r \in {_build_leaderboard_text(all_users, 1, PER_PAGE, viewer_id)} :
    \E pager \in {_build_pager_old(r.page, r.total_pages, prefix)} :
       /\ msg' = InitialMessage(kind, r, pager, Len(all_users), FinalResponses(f)[1])
       /\ last' = [op |-> kind \o "_command", raised |-> FALSE,
                   viewer_id |-> viewer_id, fault |-> fault, faults |-> f,
                   responses |-> FinalResponses(f)]

\* The loading notice or the text message fails: the handler raises and no
\* final response is sent.
SendRaises(kind, f) ==
    /\ msg' = msg
    /\ last' = [op |-> kind \o "_command", raised |-> TRUE, faults |-> f,
                responses |-> FinalResponses(f)]

\* leaderboard_command under the faults f.
leaderboard_command(f) ==
    IF SendRaised(f) THEN SendRaises("leaderboard", f)
    ELSE \E viewer_id \in ViewerIds, fault \in BOOLEAN :
          \E all_users \in {get_all_users_sorted(users, DefaultLimit, fault)} :
            SendInitial("leaderboard", LeaderboardPrefix, all_users, viewer_id,
                        fault, f)

\* daily_leaderboard_command under the faults f.
daily_leaderboard_command(f) ==
    IF SendRaised(f) THEN SendRaises("daily", f)
    ELSE \E viewer_id \in ViewerIds :
            SendInitial("daily", DailyPrefix, get_daily_leaderboard, viewer_id,
                        FALSE, f)

\* A user sends the leaderboard command.
LeaderboardCommand ==
    /\ \E f \in SendCases : leaderboard_command(f)
    /\ UNCHANGED <<users, daily, mods, chat, chat_data>>

\* A user sends the daily leaderboard command.
DailyCommand ==
    /\ \E f \in SendCases : daily_leaderboard_command(f)
    /\ UNCHANGED <<users, daily, mods, chat, chat_data>>

\* What a callback handler did: the button pressed, whether the token was read
\* as a page, the edits attempted, whether the query was answered and with
\* which notice ("none" when it was not answered, "" for a silent
\* acknowledgement), whether an exception left the handler, and how the
\* acknowledgement channel behaved (ack).
Handled(op, b, parsed, req_page, edits, notice, raised, ans) ==
    [op |-> op, label |-> b.label, data |-> b.data, parsed |-> parsed,
     req_page |-> req_page, edits |-> edits, answered |-> (notice /= "none"),
     notice |-> notice, raised |-> raised, ack |-> ans]

\* What the user gets from query.answer(text): ans is "ok" when the
\* acknowledgement goes through and "error" when query.answer raises.
Answer(ans, text) == IF ans = "ok" THEN text ELSE "none"

\* _edit_leaderboard_page: the edit, and the fallback edit when the edit (or
\* the acknowledgement after it) is rejected for another reason than
\* "not modified".
_edit_leaderboard_page(viewer_id, b, page, ans) ==
    \E fault \in BOOLEAN :
      \E all_users \in {get_all_users_sorted(users, DefaultLimit, fault)} :
      \E r \in {_build_leaderboard_text(all_users, page, PER_PAGE, viewer_id)} :
      \E pager \in {_build_pager_old(r.page, r.total_pages, LeaderboardPrefix)} :
        LET c1 == [text |-> r.text, markup |-> pager, warned |-> FALSE]
            c2 == [text |-> r.text, markup |-> pager, warned |-> TRUE]
            H(edits, notice) ==
                Handled("leaderboard_callback", b, TRUE, page, edits, notice, FALSE, ans)
        IN \E r1 \in EditOutcomes(msg, c1) :
            CASE r1 = "ok" /\ ans = "ok" ->
                   /\ msg' = Edited(msg, r, pager, Len(all_users), FALSE)
                   /\ last' = H(<<"ok">>, "")
              [] r1 = "ok" /\ ans /= "ok" ->
                   \E r2 \in {"ok", "error"} :
                       /\ msg' = Edited(msg, r, pager, Len(all_users), r2 = "ok")
                       /\ last' = H(<<"ok", r2>>, "none")
              [] r1 = "not_modified" ->
                   /\ msg' = msg
                   /\ last' = H(<<"not_modified">>, Answer(ans, "No changes."))
              [] OTHER ->
                   \E r2 \in EditOutcomes(msg, c2) :
                       IF r2 = "ok"
                       THEN /\ msg' = Edited(msg, r, pager, Len(all_users), TRUE)
                            /\ last' = H(<<"error", "ok">>, Answer(ans, ""))
                       ELSE /\ msg' = msg
                            /\ last' = H(<<"error", r2>>, "none")

\* _edit_daily_leaderboard_page: the edit and the acknowledgement; the except
\* branch acknowledges again, outside any try.
_edit_daily_leaderboard_page(viewer_id, b, page, ans) ==
    \E all_users \in {get_daily_leaderboard} :
    \E r \in {_build_leaderboard_text(all_users, page, PER_PAGE, viewer_id)} :
    \E pager \in {_build_pager_old(r.page, r.total_pages, DailyPrefix)} :
    LET c1 == [text |-> r.text, markup |-> pager, warned |-> FALSE]
    IN \E r1 \in EditOutcomes(msg, c1) :
        /\ msg' = IF r1 = "ok" THEN Edited(msg, r, pager, Len(all_users), FALSE)
                  ELSE msg
        /\ last' = Handled("daily_leaderboard_callback", b, TRUE, page, <<r1>>,
                           Answer(ans, ""), ans /= "ok", ans)

\* leaderboard_callback(update) for the button b pressed by viewer_id.
leaderboard_callback(viewer_id, b, ans) ==
    LET data == Strip(b.data)
        page == LeaderboardTokenPage(data)
    IN IF ~StartsWith(data, LeaderboardPrefix \o <<"_">>) \/ ~page.ok
       THEN /\ msg' = msg
            /\ last' = Handled("leaderboard_callback", b, FALSE, 0, <<>>,
                               Answer(ans, ""), ans /= "ok", ans)
       ELSE _edit_leaderboard_page(viewer_id, b, page.val, ans)

\* daily_leaderboard_callback(update) for the button b pressed by viewer_id.
daily_leaderboard_callback(viewer_id, b, ans) ==
    LET data == Strip(b.data)
        page == DailyTokenPage(data)
    IN IF ~StartsWith(data, DailyPrefix \o <<"_">>) \/ ~page.ok
       THEN /\ msg' = msg
            /\ last' = Handled("daily_leaderboard_callback", b, FALSE, 0, <<>>,
                               Answer(ans, ""), ans /= "ok", ans)
       ELSE _edit_daily_leaderboard_page(viewer_id, b, page.val, ans)

\* The activation of a button of the message reaches leaderboard_callback and
\* is acknowledged.
LeaderboardCallback ==
    /\ msg.kind /= "none"
    /\ \E i \in 1..Len(Buttons(msg.markup)), viewer_id \in ViewerIds :
        leaderboard_callback(viewer_id, Buttons(msg.markup)[i], "ok")
    /\ UNCHANGED <<users, daily, mods, chat, chat_data>>

\* The activation of a button of the message reaches
\* daily_leaderboard_callback and is acknowledged.
DailyCallback ==
    /\ msg.kind /= "none"
    /\ \E i \in 1..Len(Buttons(msg.markup)), viewer_id \in ViewerIds :
        daily_leaderboard_callback(viewer_id, Buttons(msg.markup)[i], "ok")
    /\ UNCHANGED <<users, daily, mods, chat, chat_data>>

(***************************************************************************)
(* The rank requests: users_rank, userinfo and userinfo_callback.           *)
(***************************************************************************)
\* round(daily_wins / daily_games * 100, 1) if daily_games else 0
DailyWinPct(wins, games) == IF games /= 0 THEN RoundPct(wins, games) ELSE 0

\* The daily stats of users_rank and userinfo: the counters of the user's row
\* of the daily ordering, or zeros.
DailyStats(daily_users, user_id) ==
    LET idx == IndexOf(daily_users, user_id)
    IN IF idx > 0
       THEN LET daily_row == daily_users[idx]
            IN [games |-> daily_row.games_played, wins |-> daily_row.wins,
                losses |-> daily_row.losses, score |-> daily_row.total_score,
                pen |-> daily_row.penalties,
                win_pct |-> DailyWinPct(daily_row.wins, daily_row.games_played)]
       ELSE [games |-> 0, wins |-> 0, losses |-> 0, score |-> 0, pen |-> 0,
             win_pct |-> 0]

\* users_rank for the target user_id: the composite report is sent as one
\* text message (sent), or reply_text raises.
users_rank(user_id, fault, caught, sent) ==
    /\ msg' = msg
    /\ last' = [op |-> "users_rank", user_id |-> user_id, fault |-> fault,
                caught |-> caught,
                overall |-> get_user_rank(users, user_id, fault, caught),
                daily |-> DailyStats(get_daily_leaderboard, user_id),
                responses |-> IF sent THEN <<"text">> ELSE <<>>,
                raised |-> ~sent]

Userinfo == <<"u", "s", "e", "r", "i", "n", "f", "o">>
DailyView == <<"d", "a", "i", "l", "y">>
OverallView == <<"o", "v", "e", "r", "a", "l", "l">>

\* f"userinfo_{view}_{user_id}"
UserinfoToken(view, user_id) == Userinfo \o <<"_">> \o view \o <<"_">> \o IntStr(user_id)

\* The two buttons under a userinfo message.
UserinfoButtons(user_id) ==
    <<<<[label |-> "Daily Stats", data |-> UserinfoToken(DailyView, user_id)],
        [label |-> "Overall Stats", data |-> UserinfoToken(OverallView, user_id)]>>>>

\* The overall stats text built from a summary of get_user_rank.
OverallText(stats) ==
    <<[kind |-> "overall_stats", rank |-> stats.rank, games |-> stats.total_played,
       wins |-> stats.wins, losses |-> stats.losses,
       win_percent |-> stats.win_percent, score |-> stats.total_score,
       pen |-> stats.penalties]>>

\* overall_msg of userinfo: the target's first name and overall stats.
UserinfoText(user_id, stats) ==
    <<[kind |-> "name", first_name |-> FirstNameOf(user_id)]>> \o OverallText(stats)

\* userinfo for the target user_id under the faults f.
userinfo(user_id, fault, caught, f) ==
    LET overall_stats == get_user_rank(users, user_id, fault, caught)
        overall_msg == UserinfoText(user_id, overall_stats)
        buttons == UserinfoButtons(user_id)
        done == [op |-> "userinfo", user_id |-> user_id, fault |-> fault,
                 caught |-> caught, faults |-> f, overall |-> overall_stats,
                 daily |-> DailyStats(get_daily_leaderboard, user_id),
                 responses |-> FinalResponses(f), raised |-> SendRaised(f)]
    IN /\ msg' = IF SendRaised(f) THEN msg
                 ELSE Delivered("userinfo", overall_msg, buttons, FinalResponses(f)[1])
       /\ last' = done

\* The place of row i in sorted(rows, key=total_score, reverse=True): behind
\* the rows with a higher score and the earlier rows with the same score.
ScorePos(rows, i) ==
    1 + Cardinality({j \in 1..Len(rows) : rows[j].total_score > rows[i].total_score})
      + Cardinality({j \in 1..(i - 1) : rows[j].total_score = rows[i].total_score})

\* sorted(daily_users, key=lambda x: x['total_score'], reverse=True)
SortedByScore(rows) ==
    LET pos == [i \in 1..Len(rows) |-> ScorePos(rows, i)]
    IN [p \in 1..Len(rows) |-> rows[CHOOSE i \in 1..Len(rows) : pos[i] = p]]

\* The daily view of userinfo_callback: the rank and the counters of the
\* user's row of the re-sorted daily ordering, or zeros with rank 0.
DailyRankStats(daily_users, user_id) ==
    LET daily_users_sorted == SortedByScore(daily_users)
        idx == IndexOf(daily_users_sorted, user_id)
    IN IF idx > 0
       THEN LET row == daily_users_sorted[idx]
            IN [rank |-> idx, games |-> row.games_played, wins |-> row.wins,
                losses |-> row.losses, score |-> row.total_score,
                pen |-> row.penalties,
                win_pct |-> DailyWinPct(row.wins, row.games_played)]
       ELSE [rank |-> 0, games |-> 0, wins |-> 0, losses |-> 0, score |-> 0,
             pen |-> 0, win_pct |-> 0]

\* The daily stats text of userinfo_callback.
DailyText(stats) ==
    <<[kind |-> "daily_stats", rank |-> stats.rank, games |-> stats.games,
       wins |-> stats.wins, losses |-> stats.losses, win_percent |-> stats.win_pct,
       score |-> stats.score, pen |-> stats.pen]>>

\* The answers of the delivery collaborator to the second edit of
\* userinfo_callback, made with the other edit method after the first edit
\* answered r1.
SecondEditOutcomes(r1) == IF r1 = "not_modified" THEN {"error"} ELSE {"ok", "error"}

\* userinfo_callback for the button b.
userinfo_callback(b, fault, caught, ans) ==
    LET parts == Split(b.data, "_", -1)
        R(parsed, view_type, uid, out, edits, answered, raised) ==
            [op |-> "userinfo_callback", label |-> b.label, data |-> b.data,
             parsed |-> parsed, view_type |-> view_type, user_id |-> uid,
             out |-> out, edits |-> edits, answered |-> answered,
             raised |-> raised, ack |-> ans]
    IN IF Len(parts) /= 3
       THEN /\ msg' = msg
            /\ last' = R(FALSE, <<>>, 0, <<>>, <<>>, ans = "ok", ans /= "ok")
       ELSE IF ~ParseInt(parts[3]).ok
       THEN /\ msg' = msg
            /\ last' = R(FALSE, parts[2], 0, <<>>, <<>>, FALSE, TRUE)
       ELSE
         \E user_id \in {ParseInt(parts[3]).val} :
         \E stats \in {IF parts[2] = DailyView
                       THEN DailyRankStats(get_daily_leaderboard, user_id)
                       ELSE get_user_rank(users, user_id, fault, caught)} :
         \E text \in {IF parts[2] = DailyView THEN DailyText(stats)
                      ELSE OverallText(stats)} :
         \E buttons \in {UserinfoButtons(user_id)} :
         \E r1 \in EditOutcomes(msg, [text |-> text, markup |-> buttons,
                                      warned |-> FALSE]) :
            LET edited == [kind |-> msg.kind, photo |-> msg.photo,
                           warned |-> FALSE, text |-> text, markup |-> buttons]
                D(edits, answered, raised) ==
                    R(TRUE, parts[2], user_id, stats, edits, answered, raised)
            IN IF r1 = "ok"
               THEN /\ msg' = edited
                    /\ last' = D(<<"ok">>, ans = "ok", ans /= "ok")
               ELSE \E r2 \in SecondEditOutcomes(r1) :
                      IF r2 = "ok"
                      THEN /\ msg' = edited
                           /\ last' = D(<<r1, "ok">>, ans = "ok", ans /= "ok")
                      ELSE /\ msg' = msg
                           /\ last' = D(<<r1, r2>>, FALSE, TRUE)

Next ==
    \/ UserJoins
    \/ DailyPlays
    \/ DailyExpires
    \/ DailyReset
    \/ LeaderboardCommand
    \/ DailyCommand
    \/ LeaderboardCallback
    \/ DailyCallback

Spec == Init /\ [][Next]_vars

(***************************************************************************)
(* SpecRequests: one trigger of the module (an initial request, a page      *)
(* action, a rank request) on a bounded store and message, under every      *)
(* combination of faults of the persistence, delivery and card              *)
(* collaborators and with action tokens that no button carries.             *)
(***************************************************************************)
\* Six users; user 1 has wins but no games played, user 2 has wins and an
\* absent games_played; user 1 is ranked last.
OddTable ==
    [i \in 1..(PER_PAGE + 1) |->
        IF i = 1 THEN [MkRow(1, 1, 1) EXCEPT !.games_played = 0]
        ELSE IF i = 2 THEN [MkRow(2, 3, 0) EXCEPT !.games_played = NULL]
        ELSE MkRow(i, 2, i % 2)]

RequestTables == {<<>>, ExampleTable, OddTable, BulkTable(2 * PER_PAGE + 1)}

\* The daily ordering of the day's table t.
DailyOf(t) == OrderBy([i \in 1..Len(t) |-> SelectRow(t[i])])

DailyOrderings ==
    {DailyOf(t) : t \in UNION {TablesOfLen(n) : n \in 0..MaxDailyRows}}
        \cup {DailyOf(OddTable)}

\* A plausible slip: the statement resets the wins it reads.
TableAfterFetchResets(table) == [i \in 1..Len(table) |-> [table[i] EXCEPT !.wins = 0]]

\* The users table after a handler of the module ran: the only statement the
\* module issues is the SELECT of get_all_users_sorted, and the connection is
\* closed without a write.
TableAfterFetch(table) == table

\* The messages an activation can come from: the first page of the overall
\* and of the daily leaderboard, and the userinfo message of user 1.
ShownMessages(all_users, r, d) ==
    {NoMsg,
     InitialMessage("leaderboard", r,
                    _build_pager_old(r.page, r.total_pages, LeaderboardPrefix),
                    Len(all_users), "photo"),
     InitialMessage("daily", d,
                    _build_pager_old(d.page, d.total_pages, DailyPrefix),
                    Len(get_daily_leaderboard), "text"),
     Delivered("userinfo",
               UserinfoText(1, RankSummary(all_users, 1)),
               UserinfoButtons(1), "photo")}

RequestsInit ==
    /\ users \in RequestTables
    /\ daily \in DailyOrderings
    /\ \E all_users \in {get_all_users_sorted(users, DefaultLimit, FALSE)} :
       \E r \in {_build_leaderboard_text(all_users, 1, PER_PAGE, 1)} :
       \E d \in {_build_leaderboard_text(get_daily_leaderboard, 1, PER_PAGE, 1)} :
          msg \in ShownMessages(all_users, r, d)
    /\ last = Idle
    /\ NoModeration

AnswerOutcomes == {"ok", "error"}

\* The retrieval faults of a call of get_user_rank: none, one absorbed by
\* get_all_users_sorted, or one caught by get_user_rank after the fetch.
RankFaults ==
    {[fault |-> FALSE, caught |-> FALSE], [fault |-> TRUE, caught |-> FALSE],
     [fault |-> FALSE, caught |-> TRUE]}

\* Page-action tokens that a pager never produces.
ForgedTokens ==
    {<<>>,
     LeaderboardPrefix,
     LeaderboardPrefix \o <<"_">>,
     LeaderboardPrefix \o <<"_", "x">>,
     LeaderboardPrefix \o <<"_", "2", "x">>,
     LeaderboardPrefix \o <<"_", "-", "1">>,
     LeaderboardPrefix \o <<"_", "9">>,
     LeaderboardPrefix \o <<"_", "1", "_", "0">>,
     <<" ">> \o LeaderboardPrefix \o <<"_", "2", " ">>,
     DailyPrefix,
     DailyPrefix \o <<"_">>,
     DailyPrefix \o <<"_", "x">>,
     DailyPrefix \o <<"_", "9">>,
     <<"d", "a", "i", "l", "y", "_", "2">>,
     UserinfoToken(DailyView, 1)}

\* The buttons an activation can come from: those of the message, and
\* forged ones.
Pressable(tokens) ==
    {[label |-> Buttons(msg.markup)[i].label, data |-> Buttons(msg.markup)[i].data] :
        i \in 1..Len(Buttons(msg.markup))}
    \cup {[label |-> "forged", data |-> t] : t \in tokens}

\* An initial request for the overall leaderboard.
LeaderboardRequest ==
    /\ last = Idle /\ msg = NoMsg
    /\ \E f \in SendFaults : leaderboard_command(f)
    /\ users' = TableAfterFetch(users)
    /\ daily' = daily
    /\ UNCHANGED <<mods, chat, chat_data>>

\* An initial request for the daily leaderboard.
DailyRequest ==
    /\ last = Idle /\ msg = NoMsg
    /\ \E f \in SendFaults : daily_leaderboard_command(f)
    /\ users' = TableAfterFetch(users)
    /\ daily' = daily
    /\ UNCHANGED <<mods, chat, chat_data>>

\* A page action delivered to leaderboard_callback.
LeaderboardPageAction ==
    /\ last = Idle /\ msg.kind \in {"leaderboard", "daily"}
    /\ \E b \in Pressable(ForgedTokens), viewer_id \in ViewerIds,
          ans \in AnswerOutcomes :
        leaderboard_callback(viewer_id, b, ans)
    /\ users' = TableAfterFetch(users)
    /\ daily' = daily
    /\ UNCHANGED <<mods, chat, chat_data>>

\* A page action delivered to daily_leaderboard_callback.
DailyPageAction ==
    /\ last = Idle /\ msg.kind \in {"leaderboard", "daily"}
    /\ \E b \in Pressable(ForgedTokens), viewer_id \in ViewerIds,
          ans \in AnswerOutcomes :
        daily_leaderboard_callback(viewer_id, b, ans)
    /\ users' = TableAfterFetch(users)
    /\ daily' = daily
    /\ UNCHANGED <<mods, chat, chat_data>>

\* A users_rank request.
UsersRankRequest ==
    /\ last = Idle /\ msg = NoMsg
    /\ \E user_id \in RankTargets, rf \in RankFaults, sent \in BOOLEAN :
        users_rank(user_id, rf.fault, rf.caught, sent)
    /\ users' = TableAfterFetch(users)
    /\ daily' = daily
    /\ UNCHANGED <<mods, chat, chat_data>>

\* The faults of a userinfo request: a retrieval fault with every send
\* succeeding, or any send fault with the retrieval succeeding (the summary
\* only enters the text, which no send step inspects).
UserinfoFaults ==
    {[rf |-> rf, f |-> NoFault] : rf \in RankFaults}
        \cup {[rf |-> [fault |-> FALSE, caught |-> FALSE], f |-> f] : f \in SendFaults}

\* A userinfo request.
UserinfoRequest ==
    /\ last = Idle /\ msg = NoMsg
    /\ \E user_id \in RankTargets, uf \in UserinfoFaults :
        userinfo(user_id, uf.rf.fault, uf.rf.caught, uf.f)
    /\ users' = TableAfterFetch(users)
    /\ daily' = daily
    /\ UNCHANGED <<mods, chat, chat_data>>

\* Userinfo tokens that no userinfo message carries.
ForgedUserinfoTokens ==
    {Userinfo,
     Userinfo \o <<"_">> \o DailyView,
     Userinfo \o <<"_">> \o DailyView \o <<"_", "a", "b", "c">>,
     Userinfo \o <<"_">> \o DailyView \o <<"_", "1", "_", "2">>,
     UserinfoToken(DailyView, 2),
     UserinfoToken(DailyView, 3),
     UserinfoToken(OverallView, 2),
     UserinfoToken(<<"x">>, 1)}

\* An activation delivered to userinfo_callback.
UserinfoAction ==
    /\ last = Idle /\ msg.kind = "userinfo"
    /\ \E b \in Pressable(ForgedUserinfoTokens), rf \in RankFaults,
          ans \in AnswerOutcomes :
        userinfo_callback(b, rf.fault, rf.caught, ans)
    /\ users' = TableAfterFetch(users)
    /\ daily' = daily
    /\ UNCHANGED <<mods, chat, chat_data>>

RequestsNext ==
    \/ LeaderboardRequest
    \/ DailyRequest
    \/ LeaderboardPageAction
    \/ DailyPageAction
    \/ UsersRankRequest
    \/ UserinfoRequest
    \/ UserinfoAction

SpecRequests == RequestsInit /\ [][RequestsNext]_vars

(***************************************************************************)
(* Properties of the page-change protocol (Spec).                           *)
(***************************************************************************)
PrefixOf(kind) == IF kind = "daily" THEN DailyPrefix ELSE LeaderboardPrefix

Callbacks == {"leaderboard_callback", "daily_leaderboard_callback"}

\* The handler edited the message.
EditedOk(l) == l.edits /= <<>> /\ l.edits[Len(l.edits)] = "ok"

\* The pages that the buttons of message m lead to: the tokens that the
\* callback of m's view accepts as page actions.
OfferedPages(m) ==
    LET bs == Buttons(m.markup)
        pre == PrefixOf(m.kind)
    IN {IF pre = DailyPrefix THEN DailyTokenPage(Strip(bs[i].data)).val
        ELSE LeaderboardTokenPage(Strip(bs[i].data)).val :
          i \in {j \in 1..Len(bs) :
                   /\ StartsWith(Strip(bs[j].data), pre \o <<"_">>)
                   /\ IF pre = DailyPrefix THEN DailyTokenPage(Strip(bs[j].data)).ok
                      ELSE LeaderboardTokenPage(Strip(bs[j].data)).ok}}

\* The displayed page lies within the pages of the ordering read for it, the
\* entries shown are those of that page, and the pager leads to the
\* neighbouring pages only.
PageWithinBounds ==
    msg.kind /= "none" =>
        /\ 1 <= msg.page /\ msg.page <= msg.total_pages
        /\ msg.total_pages * PER_PAGE >= msg.total
        /\ (msg.total_pages - 1) * PER_PAGE < Max(msg.total, 1)
        /\ \A k \in 1..Len(Blocks(msg.text, "entry")) :
              Blocks(msg.text, "entry")[k].rank = (msg.page - 1) * PER_PAGE + k
        /\ OfferedPages(msg) \subseteq {msg.page - 1, msg.page + 1}
        /\ OfferedPages(msg) \subseteq 1..msg.total_pages

\* A page action asks for the page before or after the displayed one, and the
\* page rendered for it is the requested page clamped to the pages of the
\* ordering read for the render.
PageStep ==
    (last' /= last /\ last'.op \in Callbacks /\ last'.parsed) =>
        /\ last'.label = "Previous" => last'.req_page = msg.page - 1
        /\ last'.label = "Next" => last'.req_page = msg.page + 1
        /\ last'.label \in {"Previous", "Next"}
        /\ EditedOk(last') =>
             /\ last'.req_page > msg'.total_pages => msg'.page = msg'.total_pages
             /\ last'.req_page \in 1..msg'.total_pages => msg'.page = last'.req_page

\* C1: from the initial request on and after any previous/next activations,
\* with the ordering growing or shrinking in between, every rendered page p
\* satisfies 1 <= p <= total_pages of the ordering read for the render, its
\* pager offers only the tokens of p-1 and p+1, and a stale token above the
\* new total_pages renders the last page.
C1_PageNavigation == [](PageWithinBounds) /\ [][PageStep]_vars

\* C1 witness: 'next' pressed on page 2 of 3 when the ordering read for the new
\* render is empty: the stale token of page 3 renders page 1 of 1.
C1_Witness ==
    /\ msg.kind = "leaderboard" /\ last.op = "leaderboard_callback"
    /\ last.label = "Next" /\ last.req_page = 3 /\ EditedOk(last)
    /\ msg.total_pages = 1 /\ msg.page = 1 /\ msg.markup = NoPager

\* C8: an activation of the 'Page X/Y' indicator leaves the message as it is:
\* either callback answers the query, attempts no edit and does not read the
\* token as a page; the token is '{prefix}:nop'.
C8_IndicatorIsNoOp ==
    [][(last' /= last /\ last'.op \in Callbacks /\ last'.label = "Page") =>
          /\ msg' = msg
          /\ last'.edits = <<>>
          /\ last'.answered
          /\ ~last'.parsed
          /\ last'.data = PrefixOf(msg.kind) \o <<":", "n", "o", "p">>]_vars

\* C8 witness: the indicator of a daily page was pressed and answered.
C8_Witness ==
    /\ msg.kind = "daily" /\ msg.total_pages = 2
    /\ last.op = "daily_leaderboard_callback" /\ last.label = "Page"
    /\ last.answered /\ last.edits = <<>>

(***************************************************************************)
(* Properties of the renderer and the pager (SpecRender).                   *)
(***************************************************************************)
Rendered == last.op = "render" /\ ~last.out.raised

EntriesOf(out) == Blocks(out.text, "entry")
YourRankOf(out) == Blocks(out.text, "your_rank")

\* The user ids listed on pages k..total_pages, in order.
RECURSIVE IdsFromPage(_, _, _, _, _)
IdsFromPage(all_users, per_page, viewer_id, k, total_pages) ==
    IF k > total_pages THEN <<>>
    ELSE LET es == EntriesOf(_build_leaderboard_text(all_users, k, per_page, viewer_id))
         IN [i \in 1..Len(es) |-> es[i].user_id]
            \o IdsFromPage(all_users, per_page, viewer_id, k + 1, total_pages)

\* C2: for a non-empty ordering and per_page >= 1, the rendered page k lists
\* exactly min(per_page, total - (k-1)*per_page) entries, each labelled with
\* its absolute 1-based position in the ordering, and the entries of pages
\* 1..total_pages in order are exactly the ordering.
C2_PagesPartitionOrdering ==
    (Rendered /\ last.per_page >= 1 /\ last.all_users /= <<>>) =>
        LET out == last.out
            all_users == last.all_users
            es == EntriesOf(out)
        IN /\ Len(es) = Min(last.per_page,
                            Len(all_users) - (out.page - 1) * last.per_page)
           /\ Len(es) >= 1
           /\ \A k \in 1..Len(es) :
                /\ es[k].rank = (out.page - 1) * last.per_page + k
                /\ es[k].rank \in 1..Len(all_users)
                /\ es[k].user_id = all_users[es[k].rank].user_id
           /\ IdsFromPage(all_users, last.per_page, last.viewer_id, 1, out.total_pages)
                = [i \in 1..Len(all_users) |-> all_users[i].user_id]

\* C2 witness: the second, partly filled page of a three-user ordering.
C2_Witness ==
    /\ Rendered /\ last.per_page = 2 /\ Len(last.all_users) = 3
    /\ last.out.page = 2 /\ Len(EntriesOf(last.out)) = 1
    /\ EntriesOf(last.out)[1].rank = 3

\* C3: a page below 1 renders as page 1, a page above total_pages renders as
\* page total_pages, the returned page lies in 1..total_pages and rendering
\* the returned page again gives the same result.
C3_ClampingIdempotent ==
    (last.op = "render") =>
        LET R(p) == _build_leaderboard_text(last.all_users, p, last.per_page,
                                            last.viewer_id)
            out == last.out
        IN /\ last.page < 1 => out = R(1)
           /\ ~out.raised =>
                /\ out.page >= 1 /\ out.page <= out.total_pages
                /\ last.page > out.total_pages => out = R(out.total_pages)
                /\ R(out.page) = out

\* C3 witness: a request beyond the last of several pages.
C3_Witness ==
    /\ Rendered /\ last.out.total_pages >= 2
    /\ last.page > last.out.total_pages
    /\ last.out.page = last.out.total_pages

\* C4: for per_page >= 1 the returned total_pages is max(1, ceil(total /
\* per_page)): the least n >= 1 with n * per_page >= total.
C4_TotalPagesIsCeil ==
    (Rendered /\ last.per_page >= 1) =>
        LET tp == last.out.total_pages
            total == Len(last.all_users)
        IN /\ tp >= 1
           /\ tp * last.per_page >= total
           /\ \A n \in 1..(tp - 1) : n * last.per_page < total

\* C4 witness: three users at two per page make two pages.
C4_Witness ==
    /\ Rendered /\ last.per_page = 2 /\ Len(last.all_users) = 3
    /\ last.out.total_pages = 2

\* The rows of the ordering that belong to the viewer.
ViewerRows == {i \in 1..Len(last.all_users) : last.all_users[i].user_id = last.viewer_id}

ViewerInSlice == \E k \in 1..Len(EntriesOf(last.out)) :
                    EntriesOf(last.out)[k].user_id = last.viewer_id

\* C5: the output has a 'Your Rank' block exactly when the viewer is not
\* among the entries of the slice, never more than one; for a viewer present
\* in the ordering the block shows the viewer's absolute position and own
\* counters; a viewer in the slice gets no block and a highlighted entry.
C5_YourRankBlock ==
    Rendered =>
        LET es == EntriesOf(last.out)
            blocks == YourRankOf(last.out)
        IN /\ Len(blocks) <= 1
           /\ (Len(blocks) = 1) <=> ~ViewerInSlice
           /\ (~ViewerInSlice /\ ViewerRows /= {}) =>
                \A i \in ViewerRows :
                    LET row == last.all_users[i]
                    IN /\ blocks[1].rank = i
                       /\ blocks[1].user_id = last.viewer_id
                       /\ blocks[1].games = row.games_played
                       /\ blocks[1].wins = row.wins
                       /\ blocks[1].losses = row.losses
                       /\ blocks[1].score = row.total_score
                       /\ blocks[1].pen = row.penalties
           /\ ViewerInSlice =>
                /\ \E k \in 1..Len(es) : es[k].highlight
                /\ \A k \in 1..Len(es) :
                       es[k].highlight <=> (es[k].user_id = last.viewer_id)

\* C5 witness: the viewer is ranked third and page 1 of one-per-page is shown.
C5_Witness ==
    /\ Rendered /\ ~ViewerInSlice /\ Len(last.all_users) = 3
    /\ last.all_users[3].user_id = last.viewer_id
    /\ last.all_users[3].wins > 0
    /\ Len(YourRankOf(last.out)) = 1
    /\ YourRankOf(last.out)[1].rank = 3

\* C6: a viewer with no record in the ordering (the empty ordering included)
\* gets a 'Your Rank' block with rank total_users + 1 and all counters and
\* the win percent zero.
C6_UnlistedViewerDefaults ==
    (Rendered /\ ViewerRows = {}) =>
        LET blocks == YourRankOf(last.out)
        IN /\ Len(blocks) = 1
           /\ blocks[1].rank = Len(last.all_users) + 1
           /\ blocks[1].games = 0 /\ blocks[1].wins = 0 /\ blocks[1].losses = 0
           /\ blocks[1].score = 0 /\ blocks[1].pen = 0 /\ blocks[1].win_percent = 0

\* C6 witness: an unlisted viewer of a two-user ordering is ranked third.
C6_Witness ==
    /\ Rendered /\ ViewerRows = {} /\ Len(last.all_users) = 2
    /\ Len(YourRankOf(last.out)) = 1
    /\ YourRankOf(last.out)[1].rank = 3

ButtonsLabelled(markup, label) == SelectSeq(Buttons(markup), LAMBDA b : b.label = label)

\* The page a callback reads from a token of the given view.
TokenPage(prefix, data) ==
    IF prefix = DailyPrefix THEN DailyTokenPage(data) ELSE LeaderboardTokenPage(data)

\* C7: for 1 <= page <= total_pages, there is no pager iff total_pages <= 1;
\* otherwise 'previous' is offered iff page > 1 with the token of page - 1,
\* 'next' iff page < total_pages with the token of page + 1, and every
\* offered page token names a page in 1..total_pages.
C7_PagerControls ==
    (last.op = "pager" /\ 1 <= last.page /\ last.page <= last.total_pages) =>
        LET out == last.out
            prevs == ButtonsLabelled(out, "Previous")
            nexts == ButtonsLabelled(out, "Next")
        IN /\ (out = NoPager) <=> (last.total_pages <= 1)
           /\ out /= NoPager =>
                /\ Len(prevs) = (IF last.page > 1 THEN 1 ELSE 0)
                /\ Len(nexts) = (IF last.page < last.total_pages THEN 1 ELSE 0)
                /\ \A i \in 1..Len(prevs) :
                     /\ prevs[i].data = last.prefix \o <<"_">> \o IntStr(last.page - 1)
                     /\ TokenPage(last.prefix, prevs[i].data)
                          = [ok |-> TRUE, val |-> last.page - 1]
                /\ \A i \in 1..Len(nexts) :
                     /\ nexts[i].data = last.prefix \o <<"_">> \o IntStr(last.page + 1)
                     /\ TokenPage(last.prefix, nexts[i].data)
                          = [ok |-> TRUE, val |-> last.page + 1]
                /\ \A i \in 1..Len(Buttons(out)) :
                     LET b == Buttons(out)[i]
                     IN b.label \in {"Previous", "Next"} =>
                          /\ TokenPage(last.prefix, b.data).ok
                          /\ TokenPage(last.prefix, b.data).val \in 1..last.total_pages

\* C7 witness: the pager of the last of three pages offers only 'previous'.
C7_Witness ==
    /\ last.op = "pager" /\ last.page = 3 /\ last.total_pages = 3
    /\ Len(ButtonsLabelled(last.out, "Previous")) = 1
    /\ Len(ButtonsLabelled(last.out, "Next")) = 0

(***************************************************************************)
(* Properties of the ranked user store (SpecStore).                         *)
(***************************************************************************)
Fetched == last.op = "fetch" /\ ~last.fault

\* C9: the fetched ordering is sorted by wins descending and, among equal
\* wins, by total_score descending; the users with wins 10, 10, 5 and scores
\* 100, 50, 0 come out in that order.
C9_OrderingSorted ==
    Fetched =>
        LET out == last.out
        IN /\ \A i \in 1..(Len(out) - 1) :
                \/ out[i].wins > out[i + 1].wins
                \/ (out[i].wins = out[i + 1].wins
                    /\ out[i].total_score >= out[i + 1].total_score)
           /\ (users = ExampleTable /\ last.limit >= 3) =>
                /\ [i \in 1..Len(out) |-> out[i].user_id] = <<3, 2, 1>>
                /\ [i \in 1..Len(out) |-> out[i].wins] = <<10, 10, 5>>
                /\ [i \in 1..Len(out) |-> out[i].total_score] = <<100, 50, 0>>

\* C9 witness: a row with more wins and a lower score is stored after a row
\* with fewer wins and a higher score, and is fetched before it.
C9_Witness ==
    /\ Fetched /\ Len(users) = 2 /\ Len(last.out) = 2
    /\ users[1].wins = 0 /\ users[1].total_score = 1
    /\ users[2].wins = 1 /\ users[2].total_score = 0
    /\ last.out[1].user_id = 2

\* The rows of the table that belong to the user whose rank was asked.
TargetRows == {i \in 1..Len(users) : users[i].user_id = last.user_id}

\* C10: without a retrieval fault, get_user_rank reports for a user with a
\* record the user's position in the ordering of all tracked users, the
\* number of tracked users and the user's own counters, and for a user
\* without a record rank total_users + 1 with zero counters.
C10_RankOfEveryUser ==
    (last.op = "rank" /\ ~last.fault /\ ~last.raised) =>
        LET out == last.out
            everyone == get_all_users_sorted(users, -1, FALSE)
        IN /\ out.total_users = Len(users)
           /\ \A i \in TargetRows :
                LET row == SelectRow(users[i])
                IN /\ out.rank = IndexOf(everyone, last.user_id)
                   /\ out.total_played = row.games_played
                   /\ out.wins = row.wins
                   /\ out.losses = row.losses
                   /\ out.total_score = row.total_score
                   /\ out.penalties = row.penalties
           /\ TargetRows = {} =>
                /\ out.rank = Len(users) + 1
                /\ out.total_played = 0 /\ out.wins = 0 /\ out.losses = 0
                /\ out.total_score = 0 /\ out.penalties = 0 /\ out.win_percent = 0

\* C11: get_all_users_sorted(limit) always returns an ordering: the empty one
\* on a fault of the persistence layer, and otherwise the first
\* min(limit, number of rows) rows, so at most limit and at most 100 by
\* default.
C11_FetchNeverRaises ==
    (last.op = "fetch") =>
        /\ last.fault => last.out = <<>>
        /\ ~last.fault =>
             /\ Len(last.out) <= last.limit
             /\ Len(last.out) = Min(last.limit, Len(users))
             /\ last.limit = DefaultLimit => Len(last.out) <= 100

\* C11 witness: a fault on a table with rows gives the empty ordering.
C11_Witness ==
    /\ last.op = "fetch" /\ last.fault /\ Len(users) = DefaultLimit + 1
    /\ last.out = <<>>

\* C12: on a retrieval fault, absorbed by get_all_users_sorted or caught by
\* get_user_rank, the summary of any user is rank 1 of 0 users with all
\* counters and the win percent zero and the username 'Unknown'.
C12_RankFaultDefault ==
    (last.op = "rank" /\ (last.fault \/ last.raised)) =>
        /\ last.out.rank = 1 /\ last.out.total_users = 0
        /\ last.out.username = Unknown
        /\ last.out.total_played = 0 /\ last.out.wins = 0 /\ last.out.losses = 0
        /\ last.out.win_percent = 0 /\ last.out.rounds_played = 0
        /\ last.out.eliminations = 0 /\ last.out.total_score = 0
        /\ last.out.penalties = 0

\* C12 witness: the fault is absorbed by get_all_users_sorted while the rank
\* of a user with a record and wins is asked.
C12_Witness ==
    /\ last.op = "rank" /\ last.fault /\ ~last.raised
    /\ Len(users) = 2 /\ last.user_id = 2 /\ users[2].wins = 1
    /\ last.out.rank = 1 /\ last.out.total_users = 0

(***************************************************************************)
(* Properties of the handling of rejected edits (Spec).                     *)
(***************************************************************************)
\* C14: when the edit of a page is rejected as 'content unchanged', the
\* activation is acknowledged without a further edit; for any other rejection
\* exactly one fallback edit is attempted, and when that fails too the user
\* is shown a notice.
C14_EditRejections ==
    (last.op \in Callbacks /\ last.parsed /\ last.edits[1] /= "ok") =>
        /\ last.edits[1] = "not_modified" =>
             Len(last.edits) = 1 /\ last.answered
        /\ last.edits[1] = "error" =>
             /\ Len(last.edits) = 2
             /\ last.edits[2] /= "ok" => last.notice \notin {"none", ""}

(***************************************************************************)
(* Properties of the display name (SpecRender).                             *)
(***************************************************************************)
\* The display name of a record resolved first_name, then username, then
\* 'Unknown'.
FirstNameThenUsername(row) ==
    IF row.first_name /= <<>> THEN row.first_name
    ELSE IF row.username /= <<>> THEN row.username ELSE Unknown

\* C18: every page entry and the 'Your Rank' block of a viewer with a record
\* show the (escaped) display name resolved first_name, then username, then
\* 'Unknown'.
C18_DisplayNameOrder ==
    (Rendered /\ last.per_page >= 1) =>
        /\ \A k \in 1..Len(EntriesOf(last.out)) :
             LET e == EntriesOf(last.out)[k]
             IN e.display_name = HtmlEscape(FirstNameThenUsername(last.all_users[e.rank]))
        /\ \A i \in ViewerRows :
             \A k \in 1..Len(YourRankOf(last.out)) :
                 YourRankOf(last.out)[k].display_name
                     = HtmlEscape(FirstNameThenUsername(last.all_users[i]))

(***************************************************************************)
(* Properties of the triggers under faults (SpecRequests).                  *)
(***************************************************************************)
\* The text of an integer as int() reads it: blanks around, an optional sign,
\* and digits, with single underscores allowed between digits.
IntegerText(s) ==
    LET t == Strip(s)
        body == IF t /= <<>> /\ t[1] \in {"+", "-"} THEN Tail(t) ELSE t
    IN /\ body /= <<>>
       /\ \A i \in 1..Len(body) :
            \/ IsDigit(body[i])
            \/ /\ body[i] = "_" /\ 1 < i /\ i < Len(body)
               /\ IsDigit(body[i - 1]) /\ IsDigit(body[i + 1])

\* The token, blanks around it dropped, is '{prefix}_{integer}'.
MatchesGrammar(prefix, token) ==
    LET d == Strip(token)
        n == Len(prefix) + 1
    IN /\ Len(d) > n
       /\ SubSeq(d, 1, n) = prefix \o <<"_">>
       /\ IntegerText(SubSeq(d, n + 1, Len(d)))

ViewPrefix(op) ==
    IF op = "daily_leaderboard_callback" THEN DailyPrefix ELSE LeaderboardPrefix

InitialRequests == {"leaderboard_command", "daily_command", "userinfo"}

\* The text and the markup that the request recorded in last renders.
RenderedFor(l) ==
    IF l.op = "userinfo"
    THEN [text |-> UserinfoText(l.user_id, l.overall),
          markup |-> UserinfoButtons(l.user_id)]
    ELSE LET all_users == IF l.op = "daily_command" THEN daily
                          ELSE get_all_users_sorted(users, DefaultLimit, l.fault)
             r == _build_leaderboard_text(all_users, 1, PER_PAGE, l.viewer_id)
         IN [text |-> r.text,
             markup |-> _build_pager_old(r.page, r.total_pages,
                                         IF l.op = "daily_command" THEN DailyPrefix
                                         ELSE LeaderboardPrefix)]

C16_NoExceptionEscapes ==
    (last.op /= "init") => ~last.raised

\* C17: the daily rank that userinfo_callback reports is the user's position
\* in the daily ordering under the wins-then-total_score rule, and
\* total_users + 1 for a user who is not in it.
C17_DailyRankSameRule ==
    (last.op = "userinfo_callback" /\ last.parsed /\ last.view_type = DailyView) =>
        LET ordering == OrderBy(daily)
            idx == IndexOf(ordering, last.user_id)
        IN last.out.rank = (IF idx > 0 THEN idx ELSE Len(daily) + 1)

\* The entry and 'Your Rank' blocks of a rendered text.
StatBlocks(text) == SelectSeq(text, LAMBDA b : b.kind \in {"entry", "your_rank"})

\* C19: wherever a win percent is shown for a record without games played
\* (page entries, the 'Your Rank' block, the summary of get_user_rank, the
\* daily stats of users_rank and userinfo), it is 0, whatever the wins.
C19_WinPercentZeroWithoutGames ==
    /\ msg.kind \in {"leaderboard", "daily"} =>
         \A k \in 1..Len(StatBlocks(msg.text)) :
             StatBlocks(msg.text)[k].games = 0
                 => StatBlocks(msg.text)[k].win_percent = 0
    /\ last.op \in {"users_rank", "userinfo"} =>
         /\ last.overall.total_played = 0 => last.overall.win_percent = 0
         /\ last.daily.games = 0 => last.daily.win_pct = 0

\* C19 witness: users_rank for a user with a win and no games played, overall
\* and in the daily window.
C19_Witness ==
    /\ last.op = "users_rank" /\ ~last.fault /\ ~last.caught
    /\ last.overall.wins = 1 /\ last.overall.total_played = 0
    /\ last.overall.win_percent = 0
    /\ last.daily.wins = 1 /\ last.daily.games = 0 /\ last.daily.win_pct = 0

MaxPeople == 3
MaxPending == 1

OWNER_ID == 1

\* The Telegram users who write in the chat.
People == 1..MaxPeople

\* The full name of a Telegram profile (never empty).
FullNameOf(id) == <<"U">> \o IntStr(id)

\* CURRENT_TIMESTAMP of a statement executed after the initial state, whose
\* rows carry the stamp 0.
CURRENT_TIMESTAMP == 1

\* A row of the users table with all the columns that moderation writes.
StatsRow(id, w, s, ls) == MkRow(id, w, s) @@ [last_score |-> ls, updated_at |-> 0]

\* The users tables of the moderation runs: none, and three users of which
\* one has unset counters.
ModTables ==
    {<<>>,
     <<StatsRow(1, 1, 0, 1), StatsRow(2, 1, 1, 0), StatsRow(3, NULL, NULL, NULL)>>}

is_owner(user_id) == user_id = OWNER_ID

is_mod(table, user_id) == \E i \in 1..Len(table) : table[i].mod_id = user_id

\* INSERT INTO mods (mod_id, username): mod_id is the INTEGER PRIMARY KEY, so
\* the row takes its place in mod_id order.
InsertMod(table, row) ==
    LET k == Cardinality({i \in 1..Len(table) : table[i].mod_id <= row.mod_id})
    IN SubSeq(table, 1, k) \o <<row>> \o SubSeq(table, k + 1, Len(table))

\* A plausible slip: the INSERT is issued without the lookup.
add_mod_unchecked(table, mod_id, username) ==
    [ok |-> TRUE, table |-> InsertMod(table, [mod_id |-> mod_id, username |-> username])]

\* add_mod: [ok |-> the returned flag, table |-> the mods table afterwards].
add_mod(table, mod_id, username) ==
    IF is_mod(table, mod_id) THEN [ok |-> FALSE, table |-> table]
    ELSE [ok |-> TRUE,
          table |-> InsertMod(table, [mod_id |-> mod_id, username |-> username])]

\* DELETE FROM mods WHERE mod_id = ?
DeleteMod(table, mod_id) ==
    LET keep == {i \in 1..Len(table) : table[i].mod_id /= mod_id}
        nth(k) == CHOOSE i \in keep : Cardinality({j \in keep : j < i}) = k - 1
    IN [k \in 1..Cardinality(keep) |-> table[nth(k)]]

\* remove_mod: [ok |-> the returned flag, table |-> the mods table afterwards].
remove_mod(table, mod_id) ==
    IF ~is_mod(table, mod_id) THEN [ok |-> FALSE, table |-> table]
    ELSE [ok |-> TRUE, table |-> DeleteMod(table, mod_id)]

\* The SET clause of the UPDATE of reset_user_stats and reset_all_callback.
ResetRow(r) ==
    [r EXCEPT !.games_played = 0, !.wins = 0, !.losses = 0, !.rounds_played = 0,
              !.eliminations = 0, !.total_score = 0, !.last_score = 0,
              !.penalties = 0, !.updated_at = CURRENT_TIMESTAMP]

\* reset_user_stats: [ok |-> the returned flag, table |-> the users table
\* afterwards].
reset_user_stats(table, user_id) ==
    IF ~\E i \in 1..Len(table) : table[i].user_id = user_id
    THEN [ok |-> FALSE, table |-> table]
    ELSE [ok |-> TRUE,
          table |-> [i \in 1..Len(table) |->
                        IF table[i].user_id = user_id THEN ResetRow(table[i])
                        ELSE table[i]]]

\* The UPDATE without a WHERE clause of reset_all_callback.
ResetAllRows(table) == [i \in 1..Len(table) |-> ResetRow(table[i])]

\* "not x" of Python for an optional integer.
Falsy(v) == v = None \/ v = Some(0)

\* The id a command names: int(context.args[0]) when there are arguments,
\* otherwise the author of the message replied to; invalid for a ValueError.
NamedId(arg, reply) ==
    IF arg /= None
    THEN IF ParseInt(arg[1]).ok
         THEN [invalid |-> FALSE, id |-> Some(ParseInt(arg[1]).val)]
         ELSE [invalid |-> TRUE, id |-> None]
    ELSE [invalid |-> FALSE, id |-> reply]

\* The /addmod commands: the owner replies to another user's message or to
\* none, another user replies to a message of user 2.
AddmodInputs ==
    {[from_id |-> OWNER_ID, reply |-> r] :
        r \in {None} \cup {Some(p) : p \in People \ {OWNER_ID}}}
    \cup {[from_id |-> u, reply |-> Some(2)] : u \in People \ {OWNER_ID}}

\* The /rmmod commands: the owner gives an argument text, replies to a
\* message, or does neither; another user names user 2.
RmmodInputs ==
    {[from_id |-> OWNER_ID, arg |-> Some(a), reply |-> None] :
        a \in {IntStr(p) : p \in 0..MaxPeople} \cup {<<"x">>}}
    \cup {[from_id |-> OWNER_ID, arg |-> None, reply |-> None],
          [from_id |-> OWNER_ID, arg |-> None, reply |-> Some(2)],
          [from_id |-> OWNER_ID, arg |-> Some(<<"2">>), reply |-> Some(OWNER_ID)]}
    \cup {[from_id |-> u, arg |-> Some(<<"2">>), reply |-> None] :
            u \in People \ {OWNER_ID}}

\* What a /reset command can carry: it names user 2, nobody, or something
\* that is not a number; sent: the confirmation message is delivered.
ResetInputs ==
    {[arg |-> Some(a), reply |-> None, sent |-> TRUE] : a \in {<<"0">>, <<"2">>, <<"x">>}}
    \cup {[arg |-> None, reply |-> Some(2), sent |-> TRUE],
          [arg |-> None, reply |-> None, sent |-> TRUE],
          [arg |-> Some(<<"2">>), reply |-> Some(OWNER_ID), sent |-> TRUE],
          [arg |-> Some(<<"2">>), reply |-> None, sent |-> FALSE]}

ConfirmReset == <<"c", "o", "n", "f", "i", "r", "m", "_", "r", "e", "s", "e", "t">>
CancelReset == <<"c", "a", "n", "c", "e", "l", "_", "r", "e", "s", "e", "t">>
ConfirmResetAll == ConfirmReset \o <<"_", "a", "l", "l">>
CancelResetAll == CancelReset \o <<"_", "a", "l", "l">>

\* f"{action}:{target_id}:{user.id}"
ResetToken(action, target_id, user_id) ==
    action \o <<":">> \o IntStr(target_id) \o <<":">> \o IntStr(user_id)

\* f"{action}:{user.id}"
ResetAllToken(action, user_id) == action \o <<":">> \o IntStr(user_id)

\* The confirmation message of /reset, sent in reply to the command of
\* user_id.
ResetMessage(target_id, user_id) ==
    [kind |-> "reset", from_user |-> user_id,
     text |-> <<"ask", target_id>>,
     markup |-> <<<<[label |-> "Yes",
                     data |-> ResetToken(ConfirmReset, target_id, user_id)],
                    [label |-> "No",
                     data |-> ResetToken(CancelReset, target_id, user_id)]>>>>]

\* The confirmation message of /resetall.
ResetAllMessage(user_id) ==
    [kind |-> "resetall", from_user |-> user_id,
     text |-> <<"ask_all">>,
     markup |-> <<<<[label |-> "Yes", data |-> ResetAllToken(ConfirmResetAll, user_id)],
                    [label |-> "No", data |-> ResetAllToken(CancelResetAll, user_id)]>>>>]

\* The chat without its i-th message.
Without(messages, i) ==
    [k \in 1..(Len(messages) - 1) |-> IF k < i THEN messages[k] ELSE messages[k + 1]]

\* The authorization test of reset.
MayReset(table, user_id) == is_owner(user_id) \/ is_mod(table, user_id)

\* A plausible slip: any user may confirm or cancel.
SameUserAlways(from_id, initiator_id) == TRUE

\* The test of the callbacks that the user who pressed is the initiator named
\* by the token.
SameUser(from_id, initiator_id) == from_id = initiator_id

\* The message with the history of its command: whether the author of the
\* command was the owner or a mod when the command was handled.
Issued(m, table) ==
    m @@ [authorized |-> is_owner(m.from_user) \/ is_mod(table, m.from_user)]

\* What a moderation command did.
Commanded(op, user_id, outcome, id) ==
    [op |-> op, from_id |-> user_id, outcome |-> outcome, id |-> id, before |-> mods]

\* addmod, sent by user_id in reply to a message of reply (None: no reply).
addmod(user_id, reply) ==
    IF ~is_owner(user_id)
    THEN mods' = mods /\ last' = Commanded("addmod", user_id, "unauthorized", None)
    ELSE IF reply = None
    THEN mods' = mods /\ last' = Commanded("addmod", user_id, "no_reply", None)
    ELSE \E r \in {add_mod(mods, reply[1],
                           StrOr(UserNameOf(reply[1]), FullNameOf(reply[1])))} :
            /\ mods' = r.table
            /\ last' = Commanded("addmod", user_id,
                                 IF r.ok THEN "added" ELSE "already", reply)

\* rmmod, sent by user_id.
rmmod(user_id, arg, reply) ==
    IF ~is_owner(user_id)
    THEN mods' = mods /\ last' = Commanded("rmmod", user_id, "unauthorized", None)
    ELSE LET named == NamedId(arg, reply)
         IN IF named.invalid
            THEN mods' = mods /\ last' = Commanded("rmmod", user_id, "invalid", None)
            ELSE IF Falsy(named.id)
            THEN mods' = mods /\ last' = Commanded("rmmod", user_id, "no_target", named.id)
            ELSE \E r \in {remove_mod(mods, named.id[1])} :
                    /\ mods' = r.table
                    /\ last' = Commanded("rmmod", user_id,
                                         IF r.ok THEN "removed" ELSE "not_found",
                                         named.id)

\* reset, sent by user_id; sent: the delivery of the confirmation message
\* succeeded.
reset(user_id, arg, reply, sent) ==
    IF ~MayReset(mods, user_id)
    THEN chat' = chat /\ last' = Commanded("reset", user_id, "unauthorized", None)
    ELSE LET named == NamedId(arg, reply)
         IN IF named.invalid
            THEN chat' = chat /\ last' = Commanded("reset", user_id, "invalid", None)
            ELSE IF Falsy(named.id)
            THEN chat' = chat /\ last' = Commanded("reset", user_id, "no_target", named.id)
            ELSE IF sent
            THEN /\ chat' = Append(chat, Issued(ResetMessage(named.id[1], user_id), mods))
                 /\ last' = Commanded("reset", user_id, "asked", named.id)
            ELSE chat' = chat /\ last' = Commanded("reset", user_id, "raised", named.id)

\* reset_all, sent by user_id.
reset_all(user_id, sent) ==
    IF ~is_owner(user_id)
    THEN chat' = chat /\ last' = Commanded("reset_all", user_id, "unauthorized", None)
    ELSE IF sent
    THEN /\ chat' = Append(chat, Issued(ResetAllMessage(user_id), mods))
         /\ last' = Commanded("reset_all", user_id, "asked", None)
    ELSE chat' = chat /\ last' = Commanded("reset_all", user_id, "raised", None)

\* What a confirmation callback did with the activation by from_id of button
\* b of message m.
Activated(op, from_id, m, b, outcome, target, did_reset, found) ==
    [op |-> op, from_id |-> from_id, label |-> b.label, data |-> b.data,
     issuer |-> m.from_user, authorized |-> m.authorized,
     outcome |-> outcome, target |-> target, did_reset |-> did_reset,
     returned |-> found]

\* reset_callback for the activation by from_id of button b of chat[i]; edit:
\* the answer of the delivery collaborator to edit_text.
reset_callback(from_id, i, b, edit) ==
    LET parts == Split(b.data, ":", -1)
        A(outcome, target, did_reset, found) ==
            Activated("reset_callback", from_id, chat[i], b, outcome, target,
                      did_reset, found)
        EditThen(outcome, target, did_reset, found) ==
            IF edit = "ok"
            THEN chat' = Without(chat, i) /\ last' = A(outcome, target, did_reset, found)
            ELSE chat' = chat /\ last' = A("error", target, did_reset, found)
    IN IF Len(parts) /= 3 \/ ~ParseInt(parts[2]).ok \/ ~ParseInt(parts[3]).ok
       THEN /\ users' = users /\ chat' = chat
            /\ last' = A("error", None, FALSE, FALSE)
       ELSE LET action == parts[1]
                target_id == ParseInt(parts[2]).val
                initiator_id == ParseInt(parts[3]).val
            IN IF ~SameUser(from_id, initiator_id)
               THEN /\ users' = users /\ chat' = chat
                    /\ last' = A("refused", Some(target_id), FALSE, FALSE)
               ELSE IF action = ConfirmReset
               THEN \E r \in {reset_user_stats(users, target_id)} :
                       /\ users' = r.table
                       /\ EditThen(IF r.ok THEN "reset" ELSE "not_found",
                                 Some(target_id), r.ok, r.ok)
               ELSE IF action = CancelReset
               THEN /\ users' = users
                    /\ EditThen("canceled", Some(target_id), FALSE, FALSE)
               ELSE /\ users' = users /\ chat' = chat
                    /\ last' = A("answered", Some(target_id), FALSE, FALSE)

\* reset_all_callback for the activation by from_id of button b of chat[i].
reset_all_callback(from_id, i, b, edit) ==
    LET parts == Split(b.data, ":", -1)
        A(outcome, did_reset) ==
            Activated("reset_all_callback", from_id, chat[i], b, outcome, None,
                      did_reset, did_reset)
        EditThen(outcome, did_reset) ==
            IF edit = "ok"
            THEN chat' = Without(chat, i) /\ last' = A(outcome, did_reset)
            ELSE chat' = chat /\ last' = A("error", did_reset)
    IN IF Len(parts) /= 2 \/ ~ParseInt(parts[2]).ok
       THEN /\ users' = users /\ chat' = chat /\ last' = A("error", FALSE)
       ELSE LET action == parts[1]
                initiator_id == ParseInt(parts[2]).val
            IN IF ~SameUser(from_id, initiator_id)
               THEN /\ users' = users /\ chat' = chat /\ last' = A("refused", FALSE)
               ELSE IF action = ConfirmResetAll
               THEN /\ users' = ResetAllRows(users)
                    /\ EditThen("reset_all", TRUE)
               ELSE IF action = CancelResetAll
               THEN /\ users' = users
                    /\ EditThen("canceled", FALSE)
               ELSE /\ users' = users /\ chat' = chat
                    /\ last' = A("answered", FALSE)

\* The pattern under which reset_callback is registered.
ResetPattern(data) ==
    StartsWith(data, ConfirmReset \o <<":">>) \/ StartsWith(data, CancelReset \o <<":">>)

\* The pattern under which reset_all_callback is registered.
ResetAllPattern(data) ==
    StartsWith(data, ConfirmResetAll \o <<":">>)
        \/ StartsWith(data, CancelResetAll \o <<":">>)

EditAnswers == {"ok", "error"}

ModInit ==
    /\ users \in ModTables
    /\ daily = <<>>
    /\ msg = NoMsg
    /\ last = Idle
    /\ NoModeration

\* A user sends /addmod in reply to somebody's message, or to none.
Addmod ==
    /\ \E c \in AddmodInputs : addmod(c.from_id, c.reply)
    /\ UNCHANGED <<users, daily, msg, chat, chat_data>>

\* A user sends /rmmod.
Rmmod ==
    /\ \E c \in RmmodInputs : rmmod(c.from_id, c.arg, c.reply)
    /\ UNCHANGED <<users, daily, msg, chat, chat_data>>

\* A user sends /reset.
ResetCommand ==
    /\ Len(chat) < MaxPending
    /\ \E user_id \in People, c \in ResetInputs :
        reset(user_id, c.arg, c.reply, c.sent)
    /\ UNCHANGED <<users, daily, msg, mods, chat_data>>

\* A user sends /resetall.
ResetAllCommand ==
    /\ Len(chat) < MaxPending
    /\ \E user_id \in People, sent \in BOOLEAN : reset_all(user_id, sent)
    /\ UNCHANGED <<users, daily, msg, mods, chat_data>>

\* A user presses a button of a /reset confirmation message.
ResetActivation ==
    /\ \E from_id \in People, i \in 1..Len(chat), edit \in EditAnswers :
        \E b \in {x \in {Buttons(chat[i].markup)[k] :
                            k \in 1..Len(Buttons(chat[i].markup))} :
                     ResetPattern(x.data)} :
            reset_callback(from_id, i, b, edit)
    /\ UNCHANGED <<daily, msg, mods, chat_data>>

\* A user presses a button of a /resetall confirmation message.
ResetAllActivation ==
    /\ \E from_id \in People, i \in 1..Len(chat), edit \in EditAnswers :
        \E b \in {x \in {Buttons(chat[i].markup)[k] :
                            k \in 1..Len(Buttons(chat[i].markup))} :
                     ResetAllPattern(x.data)} :
            reset_all_callback(from_id, i, b, edit)
    /\ UNCHANGED <<daily, msg, mods, chat_data>>

ModNext ==
    \/ Addmod
    \/ Rmmod
    \/ ResetCommand
    \/ ResetAllCommand
    \/ ResetActivation
    \/ ResetAllActivation

SpecMod == ModInit /\ [][ModNext]_vars

(***************************************************************************)
(* Claims about the moderation commands.                                    *)
(***************************************************************************)
ConfirmationCallbacks == {"reset_callback", "reset_all_callback"}

\* The activation selected the Yes button.
Confirms(l) == StartsWith(l.data, ConfirmReset)

C22_ConfirmerStillAuthorized ==
    [][(last'.op = "reset_callback" /\ last'.did_reset)
          => (is_owner(last'.from_id) \/ is_mod(mods', last'.from_id))]_vars

\* No mod_id occurs in two rows of the mods table.
UniqueMods == \A i, j \in 1..Len(mods) : mods[i].mod_id = mods[j].mod_id => i = j

\* C24: the mods table changes only by /addmod and /rmmod of the owner, any
\* other caller is refused; it never holds two rows for a mod_id; adding an id
\* that is present and removing an id that is absent are answered with False
\* and change nothing; removing an id right after it was added restores the
\* table.
C24_ModsTable ==
    /\ []UniqueMods
    /\ [][/\ (mods' /= mods
                => last'.op \in {"addmod", "rmmod"} /\ is_owner(last'.from_id))
          /\ (last'.op \in {"addmod", "rmmod"} /\ ~is_owner(last'.from_id)
                => last'.outcome = "unauthorized" /\ mods' = mods)
          /\ (last'.op = "addmod" /\ ~Falsy(last'.id) /\ is_mod(mods, last'.id[1])
                => last'.outcome = "already" /\ mods' = mods)
          /\ (last'.op = "addmod" /\ ~Falsy(last'.id) /\ ~is_mod(mods, last'.id[1])
                => last'.outcome = "added" /\ is_mod(mods', last'.id[1]))
          /\ (last'.op = "rmmod" /\ ~Falsy(last'.id) /\ ~is_mod(mods, last'.id[1])
                => last'.outcome = "not_found" /\ mods' = mods)
          /\ (last.op = "addmod" /\ last.outcome = "added"
                /\ last'.op = "rmmod" /\ last'.id = last.id
                => last'.outcome = "removed" /\ mods' = last.before)]_vars

\* The owner removed a mod that had just been added next to another mod.
C24_Witness ==
    /\ last.op = "rmmod"
    /\ last.outcome = "removed"
    /\ Len(last.before) = 2
    /\ Len(mods) = 1
    /\ ~is_mod(mods, last.id[1])

(***************************************************************************)
(* SpecReset: one activation of a confirmation button of the owner's        *)
(* /reset or /resetall message, on a bounded users table.                   *)
(***************************************************************************)
MaxResetRows == 2

\* Tables of n rows with the columns that moderation writes, row i
\* belonging to user i.
ResetTablesOfLen(n) ==
    {[i \in 1..n |-> StatsRow(i, f[i][1], f[i][2], f[i][2])] :
        f \in [1..n -> WinsVals \X ScoreVals]}

\* The bounded tables, and one user more than the leaderboard query reads.
ResetTables ==
    UNION {ResetTablesOfLen(n) : n \in 0..MaxResetRows}
        \cup {[i \in 1..(DefaultLimit + 1) |->
                  BulkTable(DefaultLimit + 1)[i] @@ [last_score |-> i % 2, updated_at |-> 0]]}

\* The confirmation messages of the owner: for the first and the last user
\* of the table, for a user without a record, and for all users.
OwnerMessages(table) ==
    {Issued(ResetMessage(t, OWNER_ID), <<>>) : t \in {1, Len(table), Len(table) + 1}}
        \cup {Issued(ResetAllMessage(OWNER_ID), <<>>)}

ResetInit ==
    /\ users \in ResetTables
    /\ daily = <<>>
    /\ msg = NoMsg
    /\ last = Idle
    /\ mods = <<>>
    /\ chat \in {<<m>> : m \in OwnerMessages(users)}
    /\ chat_data = None

\* The first activation of a button of a /reset message.
ResetOnce == last = Idle /\ ResetActivation

\* The first activation of a button of a /resetall message.
ResetAllOnce == last = Idle /\ ResetAllActivation

ResetNext == ResetOnce \/ ResetAllOnce

SpecReset == ResetInit /\ [][ResetNext]_vars

(***************************************************************************)
(* Claims about the effect of a reset.                                      *)
(***************************************************************************)
Counters ==
    {"games_played", "wins", "losses", "rounds_played", "eliminations",
     "total_score", "last_score", "penalties"}

IdentityFields == {"user_id", "username", "first_name"}

\* The ordering that the leaderboard shows for a users table, and its number
\* of pages.
OrderingOf(table) == get_all_users_sorted(table, DefaultLimit, FALSE)
TotalPagesOf(table) == _build_leaderboard_text(OrderingOf(table), 1, PER_PAGE, 1).total_pages

\* The activation is a confirmation by the issuer of the command.
ConfirmedBy(l, op) == l.op = op /\ Confirms(l) /\ l.from_id = l.issuer

\* The row at index i of table a became in b a row with zero counters and
\* the same identity.
ZeroedAt(a, b, i) ==
    /\ \A f \in Counters : b[i][f] = 0
    /\ \A f \in IdentityFields : b[i][f] = a[i][f]

\* The effect on the records of a confirmed /reset and of a confirmed
\* /resetall.
ResetFrame ==
    /\ ConfirmedBy(last', "reset_callback")
         => LET idx == IndexOf(users, last'.target[1])
            IN IF idx > 0
               THEN /\ last'.returned
                    /\ Len(users') = Len(users)
                    /\ ZeroedAt(users, users', idx)
                    /\ \A j \in 1..Len(users) : j /= idx => users'[j] = users[j]
               ELSE ~last'.returned /\ users' = users
    /\ ConfirmedBy(last', "reset_all_callback")
         => /\ Len(users') = Len(users)
            /\ \A i \in 1..Len(users) : ZeroedAt(users, users', i)

\* A user who was reset and was in the ordering is still in it, and the
\* ordering has as many users and pages as before.
StillListed ==
    ConfirmedBy(last', "reset_callback")
        => \E before \in {OrderingOf(users)}, after \in {OrderingOf(users')} :
              /\ IndexOf(before, last'.target[1]) > 0
                    => IndexOf(after, last'.target[1]) > 0
              /\ Len(after) = Len(before)
              /\ TotalPagesOf(users') = TotalPagesOf(users)

\* C23: reset_user_stats(u) on an existing user zeroes exactly u's counters
\* and returns True, keeps u's identity, the other records and the number of
\* records, so that u stays in the ordering and total_users and the number of
\* pages do not change; without a record of u it returns False and changes
\* nothing; a confirmed /resetall zeroes every record and deletes none.
C23_ResetFrameEffect == [][ResetFrame /\ StillListed]_vars

(***************************************************************************)
(* SpecStats: the /stats command and the category buttons of                *)
(* src/plugins/helpers/stats.py in one chat.                                *)
(*                                                                          *)
(* chat holds the stats messages of the chat, each with the text it         *)
(* displays (the view and the figures read from the users table) and its    *)
(* buttons; chat_data is chat_data['current_stats_category'].  The groups   *)
(* and games tables are empty, and the figures that depend on the clock or  *)
(* on the size of the database file are not part of the text.               *)
(***************************************************************************)
MaxShown == 2

StatsPrefix == <<"s", "t", "a", "t", "s", "_">>
BotCategory == <<"b", "o", "t">>
UsersCategory == <<"u", "s", "e", "r", "s">>
GroupsCategory == <<"g", "r", "o", "u", "p", "s">>
TopPlayersCategory == <<"t", "o", "p", "_", "p", "l", "a", "y", "e", "r", "s">>
OverviewView == <<"o", "v", "e", "r", "v", "i", "e", "w">>
UnknownView == <<"u", "n", "k", "n", "o", "w", "n">>

\* stats_buttons()
stats_buttons ==
    <<<<[label |-> "Bot Stats", data |-> StatsPrefix \o BotCategory],
        [label |-> "User Stats", data |-> StatsPrefix \o UsersCategory]>>,
      <<[label |-> "Group Stats", data |-> StatsPrefix \o GroupsCategory],
        [label |-> "Top Players", data |-> StatsPrefix \o TopPlayersCategory]>>>>

\* str.replace(old, "")
RECURSIVE Remove(_, _)
Remove(s, old) ==
    IF Len(s) < Len(old) THEN s
    ELSE IF StartsWith(s, old) THEN Remove(SubSeq(s, Len(old) + 1, Len(s)), old)
    ELSE <<Head(s)>> \o Remove(Tail(s), old)

\* COALESCE(SUM(column), 0)
RECURSIVE SumCol(_, _)
SumCol(table, column) ==
    IF table = <<>> THEN 0
    ELSE IFNULL(Head(table)[column], 0) + SumCol(Tail(table), column)

\* num / den formatted with one decimal, in tenths (ties to even).
RoundTenths(num, den) ==
    LET q == (20 * num) \div (2 * den)
        r == (20 * num) % (2 * den)
    IN IF r > den THEN q + 1
       ELSE IF r < den THEN q
       ELSE IF q % 2 = 0 THEN q ELSE q + 1

\* The line of a top player.
TopPlayerLine(i, row) ==
    [rank |-> i,
     name |-> StrOr(row.first_name, <<"P", "l", "a", "y", "e", "r">>),
     handle |-> row.username,
     wins |-> row.wins]

\* SELECT first_name, username, wins FROM users ORDER BY wins DESC,
\* total_score DESC LIMIT 3
TopPlayers(table) ==
    LET rows == Limit(OrderBy(table), 3)
    IN [i \in 1..Len(rows) |-> TopPlayerLine(i, rows[i])]

\* The text of the overview and of each category for the users table.
StatsText(view, table) ==
    LET total_users == Len(table)
        total_games == SumCol(table, "games_played")
        total_wins == SumCol(table, "wins")
        scored == Cardinality({i \in 1..Len(table) : table[i].total_score /= NULL})
    IN CASE view = OverviewView ->
                [view |-> view, total_users |-> total_users, total_groups |-> 0,
                 total_games |-> 0]
         [] view = BotCategory ->
                [view |-> view, total_games |-> total_games,
                 win_rate |-> IF total_games > 0
                              THEN RoundPct(total_wins, total_games) ELSE 0]
         [] view = UsersCategory ->
                [view |-> view, total_users |-> total_users,
                 inactive_users |->
                     Cardinality({i \in 1..Len(table) :
                                     IFNULL(table[i].games_played, 0) = 0}),
                 avg_games_per_user |->
                     IF total_users > 0 THEN RoundTenths(total_games, total_users)
                     ELSE 0,
                 avg_score |->
                     IF scored > 0
                     THEN RoundTenths(SumCol(table, "total_score"), scored) ELSE 0]
         [] view = GroupsCategory ->
                [view |-> view, total_groups |-> 0, recent_games |-> 0,
                 most_active_group |-> "No games played yet."]
         [] view = TopPlayersCategory ->
                [view |-> view, top_players |-> TopPlayers(table),
                 total_penalties |-> SumCol(table, "penalties"),
                 total_wins |-> total_wins,
                 total_losses |-> SumCol(table, "losses")]
         [] OTHER -> [view |-> UnknownView]

\* A stats message with the given text.
StatsMessage(text) == [kind |-> "stats", text |-> text, markup |-> stats_buttons]

\* What a handler of the stats helper did.
StatsDone(op, i, data, selected, shown, outcome) ==
    [op |-> op, index |-> i, data |-> data, selected |-> selected,
     shown |-> shown, outcome |-> outcome]

\* stats; sent: the delivery of the overview succeeded.
stats(sent) ==
    IF sent
    THEN /\ chat' = Append(chat, StatsMessage(StatsText(OverviewView, users)))
         /\ chat_data' = None
         /\ last' = StatsDone("stats", Len(chat) + 1, None, None, None, "sent")
    ELSE /\ chat' = chat
         /\ chat_data' = chat_data
         /\ last' = StatsDone("stats", 0, None, None, None, "error")

\* current_category == selected_category
SameCategory(current_category, selected_category) ==
    current_category = Some(selected_category)

\* The faults of the delivery collaborator during stats_callback: none,
\* query.answer() raises, or the edit of the message is rejected.
StatsFaults ==
    {[ans |-> "ok", edit |-> "ok"], [ans |-> "error", edit |-> "ok"],
     [ans |-> "ok", edit |-> "error"]}

\* stats_callback for the activation of button b of chat[i]; ans: the outcome
\* of query.answer(); edit: the answer of the delivery collaborator to an edit
\* that changes the message.
stats_callback(i, b, ans, edit) ==
    LET selected_category == Remove(b.data, StatsPrefix)
        shown == chat[i].text.view
        D(outcome) == StatsDone("stats_callback", i, b.data, selected_category,
                                shown, outcome)
    IN IF ans /= "ok"
       THEN chat' = chat /\ chat_data' = chat_data /\ last' = D("raised")
       ELSE IF SameCategory(chat_data, selected_category)
       THEN chat' = chat /\ chat_data' = chat_data /\ last' = D("already_skipped")
       ELSE \E text \in {StatsText(selected_category, users)} :
               IF text = chat[i].text
               THEN /\ chat' = chat /\ chat_data' = chat_data
                    /\ last' = D("already_not_modified")
               ELSE IF edit = "ok"
               THEN /\ chat' = [chat EXCEPT ![i] = StatsMessage(text)]
                    /\ chat_data' = Some(selected_category)
                    /\ last' = D("edited")
               ELSE /\ chat' = chat /\ chat_data' = chat_data
                    /\ last' = D("error")

\* The users tables of the stats runs.
StatsTables == {<<>>, <<MkRow(1, 1, 1)>>, <<MkRow(1, NULL, NULL), MkRow(2, 1, 0)>>}

StatsInit ==
    /\ users \in StatsTables
    /\ daily = <<>>
    /\ msg = NoMsg
    /\ last = Idle
    /\ NoModeration

\* A user sends /stats.
StatsCommand ==
    /\ Len(chat) < MaxShown
    /\ \E sent \in BOOLEAN : stats(sent)
    /\ UNCHANGED <<users, daily, msg, mods>>

\* A user presses a category button of a stats message.
StatsActivation ==
    /\ \E i \in 1..Len(chat), k \in 1..Len(Buttons(stats_buttons)),
          f \in StatsFaults :
        stats_callback(i, Buttons(chat[i].markup)[k], f.ans, f.edit)
    /\ UNCHANGED <<users, daily, msg, mods>>

StatsNext ==
    \/ StatsCommand
    \/ StatsActivation

SpecStats == StatsInit /\ [][StatsNext]_vars

(***************************************************************************)
(* Claim about the stats categories.                                        *)
(***************************************************************************)
AlreadyViewing == {"already_skipped", "already_not_modified"}

\* C25: stats_callback gives the "already viewing this stats category" notice
\* only when the message whose button was pressed displays the selected
\* category, and then skips the edit; pressed on a message that shows the
\* overview or another category it edits that message to the selected
\* category (when the delivery accepts the edit).
C25_AlreadyViewingOnlyIfShown ==
    [][last'.op = "stats_callback" /\ last'.outcome /= "raised"
          => /\ (last'.outcome \in AlreadyViewing
                   => chat[last'.index].text.view = last'.selected)
             /\ (chat[last'.index].text.view /= last'.selected
                   => /\ last'.outcome \in {"edited", "error"}
                      /\ (last'.outcome = "edited"
                            => chat'[last'.index].text.view = last'.selected))]_vars

====
